---- MODULE Spec2Model ----
(***************************************************************************)
(* A model of the Sunscreen runtime and ZKP backend.                       *)
(*                                                                         *)
(*  - sunscreen_runtime/src/lib.rs: run_program_unchecked and the worker   *)
(*    pool of parallel_traverse (specification SpecRT);                    *)
(*  - sunscreen_zkp_backend/src/bulletproofs.rs: constraint_count,         *)
(*    gen_circuit, prove and verify (specification SpecZK), and the        *)
(*    conversions between BigInt and Scalar (specification SpecConv);      *)
(*  - sunscreen_frontend_types/src/types/mod.rs: Serialize and Deserialize *)
(*    of TypeName (specification SpecTN);                                  *)
(*  - sunscreen/src/types/zkp/program_node.rs: ProgramNode handles, their  *)
(*    index arena and the input creators (specification SpecPN);           *)
(*  - sunscreen_zkp_backend/src/bulletproofs.rs: the arithmetic of enum     *)
(*    Node on its own (specification SpecFold).                             *)
(*                                                                         *)
(* Node indices are 0-based as in the source; a graph of n nodes is kept   *)
(* as a sequence whose element i+1 is node i.                              *)
(***************************************************************************)
EXTENDS Integers, Sequences, FiniteSets, TLC

VARIABLES
    \* ---- sunscreen_runtime: run_program_unchecked / parallel_traverse ----
    ir,               \* the IntermediateRepresentation: sequence of operations
    inputs,           \* inputs: &[Ciphertext], indexed from 0
    relin_keys,       \* Option<RelinearizationKeys>: TRUE when Some
    data,             \* the operand table: slot -> Option<Cow<Ciphertext>>
    deps,             \* per node AtomicUsize of parallel_traverse
    items_remaining,  \* the AtomicUsize remaining-count
    queue,            \* the unbounded crossbeam channel (FIFO)
    pc,               \* where each worker of the pool is
    node_id,          \* the node each worker received
    pending,          \* the store each worker is about to make
    panic_msg,        \* the panic that killed a worker, "" when none
    main_pc,          \* where the caller of run_program_unchecked is
    output,           \* the Vec<Ciphertext> returned
    visits,           \* history: how often the callback ran on each node
    completed,        \* history: the nodes whose callback has returned
    taken,            \* history: number of nodes received from the queue
    \* ---- sunscreen_zkp_backend: BulletproofsBackend prove / verify ----
    graph,            \* the ExecutableZkpProgram: [ops, edges]
    prove_inputs,     \* inputs: &[BigInt] given to prove, indexed from 0
    tie_break,        \* forward_traverse: the order its tie-break gives on graph
    phase,            \* where the prove / verify call is
    nodes,            \* BulletproofsCircuit.nodes: slot -> Option<Node>
    unprocessed_child_count,
    ready,            \* forward_traverse: the nodes ready to be visited
    pend,             \* forward_traverse: unvisited predecessors per node
    order,            \* history: the nodes visited, in order
    cs,               \* the constraint system (Prover or Verifier)
    cs_log,           \* history: the calls gen_circuit made on cs
    gens,             \* transcript length and generator capacity in use
    proof,            \* the Proof handed to verify
    prove_result,     \* what prove returned
    verify_result,    \* what verify returned
    prove_log,        \* history: the calls gen_circuit made on cs under prove
    \* ---- sunscreen_zkp_backend: BigInt <-> Scalar ----
    cv_x,             \* the BigInt being converted: its words, little endian
    cv_pc,            \* where the conversion is
    cv_scalar,        \* Result<Scalar>: [ok, bytes, err]
    cv_back,          \* the BigInt made of the Scalar: its words
    \* ---- sunscreen_frontend_types: TypeName ----
    tn_in,            \* the TypeName given to serialize, NoTypeName when none
    tn_str,           \* the serialized string: a sequence of characters
    tn_pc,            \* where the serialization / deserialization is
    tn_out,           \* Result<TypeName> of deserialize
    \* ---- sunscreen: ProgramNode handles and INDEX_ARENA ----
    pn_active,        \* a graph build is under way on this thread
    pn_graph,         \* the current graph: the kind of each node, by index
    pn_arena,         \* the NodeIndex values the bump arena holds
    pn_epoch,         \* how many times the arena was reset
    pn_held,          \* the handles the calling program holds in variables
    pn_read,          \* what the step just taken read of a handle's ids, if it read
    pn_call,          \* the input creator the step just taken called, and for which size
    \* ---- sunscreen_zkp_backend: Node op Node ----
    nf_x,             \* the left operand, a Node
    nf_y,             \* the right operand, a Node
    nf_pc,            \* "start", then the operator applied
    nf_out            \* the Node returned, or the panic

rtvars == <<ir, inputs, relin_keys, data, deps, items_remaining, queue, pc,
            node_id, pending, panic_msg, main_pc, output, visits, completed,
            taken>>

zkvars == <<graph, prove_inputs, tie_break, phase, nodes, unprocessed_child_count, ready,
            pend, order, cs, cs_log, gens, proof, prove_result, verify_result,
            prove_log>>

cvvars == <<cv_x, cv_pc, cv_scalar, cv_back>>

\* The state of the pure functions modelled besides the two subsystems
tnvars == <<tn_in, tn_str, tn_pc, tn_out>>

pnvars == <<pn_active, pn_graph, pn_arena, pn_epoch, pn_held, pn_read, pn_call>>

nfvars == <<nf_x, nf_y, nf_pc, nf_out>>

auxvars == <<cvvars, tnvars, pnvars, nfvars>>

vars == <<rtvars, zkvars, auxvars>>

-----------------------------------------------------------------------------
(* Each specification runs one subsystem and leaves the other one unused. *)

NoCS == [mode |-> "none", a_L |-> <<>>, a_R |-> <<>>, a_O |-> <<>>, num_vars |-> 0,
         pending_multiplier |-> {}, constraints |-> <<>>]

NoProof == [tag |-> "none", gen_len |-> 0, num_vars |-> 0, constraints |-> <<>>,
            satisfied |-> FALSE]

NoGens == [transcript |-> 0, capacity |-> 0]

ZKUnused ==
    /\ graph = [ops |-> <<>>, edges |-> <<>>]
    /\ prove_inputs = <<>>
    /\ tie_break = <<>>
    /\ phase = "unused"
    /\ nodes = <<>>
    /\ unprocessed_child_count = <<>>
    /\ ready = {}
    /\ pend = <<>>
    /\ order = <<>>
    /\ prove_log = <<>>
    /\ cs = NoCS
    /\ cs_log = <<>>
    /\ gens = NoGens
    /\ proof = NoProof
    /\ prove_result = "none"
    /\ verify_result = "none"

RTUnused ==
    /\ ir = <<>>
    /\ inputs = <<>>
    /\ relin_keys = FALSE
    /\ data = <<>>
    /\ deps = <<>>
    /\ items_remaining = 0
    /\ queue = <<>>
    /\ pc = <<>>
    /\ node_id = <<>>
    /\ pending = <<>>
    /\ panic_msg = <<>>
    /\ main_pc = "unused"
    /\ output = <<>>
    /\ visits = <<>>
    /\ completed = {}
    /\ taken = 0

NoScalar == [ok |-> FALSE, bytes |-> <<>>, err |-> ""]

CVUnused ==
    /\ cv_x = <<>>
    /\ cv_pc = "unused"
    /\ cv_scalar = NoScalar
    /\ cv_back = <<>>

NoVersion == [major |-> 0, minor |-> 0, patch |-> 0, pre |-> <<>>, build |-> <<>>]

NoTypeName == [name |-> <<>>, version |-> NoVersion, some |-> FALSE]

NoResult == [ok |-> FALSE, name |-> <<>>, version |-> NoVersion, err |-> ""]

TNUnused ==
    /\ tn_in = NoTypeName
    /\ tn_str = <<>>
    /\ tn_pc = "unused"
    /\ tn_out = NoResult

PNUnused ==
    /\ pn_active = FALSE
    /\ pn_graph = <<>>
    /\ pn_arena = <<>>
    /\ pn_epoch = 0
    /\ pn_held = <<>>
    /\ pn_read = <<>>
    /\ pn_call = <<>>

NFUnused ==
    /\ nf_x = <<>>
    /\ nf_y = <<>>
    /\ nf_pc = "unused"
    /\ nf_out = <<>>

AuxUnused == CVUnused /\ TNUnused /\ PNUnused /\ NFUnused

-----------------------------------------------------------------------------
(* Bounds of the runtime model *)

MaxNodes == 3      \* largest IR graph
NumWorkers == 2    \* num_cpus::get()
NumInputs == 2     \* inputs.len()

Workers == 1..NumWorkers

Max(a, b) == IF a >= b THEN a ELSE b

-----------------------------------------------------------------------------
(* Ciphertexts and the evaluator (seal), by what they do to the plaintext  *)
(* and to the ciphertext size.                                             *)

PlainModulus == 100

\* What a read that races with a store may produce.
Torn == [pt |-> -1, size |-> 0]

Encrypt(p) == [pt |-> p % PlainModulus, size |-> 2]

\* encode_signed(-14) and encode_signed(16) under plain modulus 100
InputPlain == {PlainModulus - 14, 16}

EvalAdd(a, b) ==
    IF a = Torn \/ b = Torn THEN Torn
    ELSE [pt |-> (a.pt + b.pt) % PlainModulus, size |-> Max(a.size, b.size)]

EvalMultiply(a, b) ==
    IF a = Torn \/ b = Torn THEN Torn
    ELSE [pt |-> (a.pt * b.pt) % PlainModulus, size |-> a.size + b.size - 1]

EvalRelinearize(a) ==
    IF a = Torn THEN Torn ELSE [pt |-> a.pt, size |-> 2]

\* Cow<Ciphertext>
Borrowed(of, at, ct) == [kind |-> "Borrowed", of |-> of, at |-> at, ct |-> ct]
Owned(ct) == [kind |-> "Owned", of |-> "none", at |-> -1, ct |-> ct]

\* Option<T>: None is the empty set, Some(v) is {v}
None == {}
Some(v) == {v}
Unwrap(o) == CHOOSE v \in o : TRUE

-----------------------------------------------------------------------------
(* The IR graph *)

NoOperand == -1

Op(op, a, b) == [op |-> op, a |-> a, b |-> b]

Unimplemented == {"ShiftLeft", "ShiftRight", "SwapRows", "Negate", "Sub", "Literal"}

\* The implemented operations a node appended at index i can carry: operands
\* are nodes appended before it.
OpsAt(i) ==
    {Op("InputCiphertext", id, NoOperand) : id \in 0..(NumInputs - 1)}
    \cup {Op(o, a, b) : o \in {"Add", "Multiply"}, a \in 0..(i - 1), b \in 0..(i - 1)}
    \cup {Op(o, a, NoOperand) : o \in {"Relinearize", "OutputCiphertext"}, a \in 0..(i - 1)}

ReservedOps == {Op(u, NoOperand, NoOperand) : u \in Unimplemented}

RECURSIVE IRsOfLen(_, _)
\* The programs of n nodes holding r reserved (unimplemented) operations.
IRsOfLen(n, r) ==
    IF n = 0 THEN (IF r = 0 THEN {<<>>} ELSE {})
    ELSE {Append(p, o) : p \in IRsOfLen(n - 1, r), o \in OpsAt(n - 1)}
         \cup (IF r = 0 THEN {}
               ELSE {Append(p, o) : p \in IRsOfLen(n - 1, r - 1), o \in ReservedOps})

\* The programs under test: up to MaxNodes nodes, at most one of them reserved.
IRs == UNION {IRsOfLen(n, r) : n \in 1..MaxNodes, r \in 0..1}

\* The input vectors under test: the two ciphertexts of the simple_add test,
\* in either order, repeated up to the length.
InputVectors ==
    {[i \in 1..NumInputs |-> Encrypt(IF i % 2 = 1 THEN p ELSE q)] :
        p \in InputPlain, q \in InputPlain}
    \ {[i \in 1..NumInputs |-> Encrypt(p)] : p \in InputPlain}

node_count == Len(ir)
node_indices == 0..(node_count - 1)
NodeOp(i) == ir[i + 1]

\* The operand references of an operation, in the order the callback reads them.
Operands(o) ==
    IF o.op \in {"Add", "Multiply"} THEN <<o.a, o.b>>
    ELSE IF o.op \in {"Relinearize", "OutputCiphertext"} THEN <<o.a>>
    ELSE <<>>

\* One edge per operand reference, from the operand to its consumer.
EdgesInto(g, v) == Operands(g[v + 1])

\* neighbors_directed(u, Outgoing): the consumers of u, one entry per edge,
\* latest edge first (v counts down from the last node).
RECURSIVE Consumers(_, _, _)
Consumers(g, u, v) ==
    IF v < 0 THEN <<>>
    ELSE [k \in 1..Len(SelectSeq(EdgesInto(g, v), LAMBDA x : x = u)) |-> v]
         \o Consumers(g, u, v - 1)

neighbors_outgoing(g, u) == Consumers(g, u, Len(g) - 1)
neighbors_incoming(g, v) == EdgesInto(g, v)

-----------------------------------------------------------------------------
(* parallel_traverse: set-up *)

\* usize::MAX, what an AtomicUsize wraps to below zero (the largest value the
\* integers of TLC hold stands for it).
UsizeMax == 2147483647

WrappingDec(x) == IF x = 0 THEN UsizeMax ELSE x - 1

\* The initial dependency count of node n.
DepCount(g, n) == Len(neighbors_outgoing(g, n))

InitialDeps(g) == [n \in 0..(Len(g) - 1) |-> DepCount(g, n)]

RECURSIVE Perms(_)
\* All orders in which a HashMap may iterate over the set S.
Perms(S) ==
    IF S = {} THEN {<<>>}
    ELSE UNION {{<<x>> \o p : p \in Perms(S \ {x})} : x \in S}

\* The nodes sent to the channel before the pool starts.
InitiallyReady(g) == {n \in 0..(Len(g) - 1) : InitialDeps(g)[n] = 0}

NoStore == [slot |-> -1, val |-> Owned(Torn)]

InitRT ==
    /\ ir \in IRs
    /\ inputs \in InputVectors
    /\ relin_keys \in BOOLEAN
    /\ data = [n \in 0..(Len(ir) - 1) |-> None]
    /\ deps = InitialDeps(ir)
    /\ items_remaining = Len(ir)
    /\ queue \in Perms(InitiallyReady(ir))
    /\ pc = [w \in Workers |-> "loop"]
    /\ node_id = [w \in Workers |-> -1]
    /\ pending = [w \in Workers |-> NoStore]
    /\ panic_msg = [w \in Workers |-> ""]
    /\ main_pc = "traverse"
    /\ output = <<>>
    /\ visits = [n \in 0..(Len(ir) - 1) |-> 0]
    /\ completed = {}
    /\ taken = 0
    /\ ZKUnused
    /\ AuxUnused

-----------------------------------------------------------------------------
(* run_program_unchecked: the callback *)

\* A read of slot `index` through as_ptr() races with a store another worker
\* is making to the same slot.
Racing(w, index) ==
    \E w2 \in Workers \ {w} : pc[w2] = "store" /\ pending[w2].slot = index

\* What the unsynchronised read of get_ciphertext may see in slot `index`.
SlotRead(w, index) ==
    IF Racing(w, index)
    THEN {data[index], None, Some(Owned(Torn))}
         \cup {Some(pending[w2].val) :
                 w2 \in {x \in Workers \ {w} : pc[x] = "store" /\ pending[x].slot = index}}
    ELSE {data[index]}

StoreOutcome(slot, val) == [kind |-> "store", slot |-> slot, val |-> val, msg |-> ""]
PanicOutcome(msg) == [kind |-> "panic", slot |-> -1, val |-> Owned(Torn), msg |-> msg]

\* get_ciphertext finds no ciphertext in what it read.
NoCiphertext(r) == r = None

\* The slot an InputCiphertext(id) node at `index` stores into.
InputSlot(index, id) == id

VisitInput(index, id) ==
    IF InputSlot(index, id) >= node_count \/ id >= Len(inputs)
    THEN {PanicOutcome("IndexOutOfBounds")}
    ELSE {StoreOutcome(InputSlot(index, id), Borrowed("inputs", id, inputs[id + 1]))}

VisitAdd(w, index, a, b) ==
    {IF NoCiphertext(ra) \/ NoCiphertext(rb) THEN PanicOutcome("NoCiphertext")
     ELSE StoreOutcome(index, Owned(EvalAdd(Unwrap(ra).ct, Unwrap(rb).ct)))
       : ra \in SlotRead(w, a), rb \in SlotRead(w, b)}

VisitMultiply(w, index, a, b) ==
    {IF NoCiphertext(ra) \/ NoCiphertext(rb) THEN PanicOutcome("NoCiphertext")
     ELSE StoreOutcome(index, Owned(EvalMultiply(Unwrap(ra).ct, Unwrap(rb).ct)))
       : ra \in SlotRead(w, a), rb \in SlotRead(w, b)}

VisitRelinearize(w, index, a) ==
    IF ~relin_keys THEN {PanicOutcome("NoRelinKeys")}
    ELSE {IF NoCiphertext(r) THEN PanicOutcome("NoCiphertext")
          ELSE StoreOutcome(index, Owned(EvalRelinearize(Unwrap(r).ct)))
            : r \in SlotRead(w, a)}

VisitOutput(w, index, a) ==
    {IF NoCiphertext(r) THEN PanicOutcome("NoCiphertext")
     ELSE StoreOutcome(index, Borrowed("data", a, Unwrap(r).ct))
       : r \in SlotRead(w, a)}

\* A mutation of VisitUnimplemented: the reserved operation stores a
\* placeholder into its own slot instead of panicking.
VisitUnimplementedStores(index) == {StoreOutcome(index, Owned(Torn))}

\* ShiftLeft, ShiftRight, SwapRows, Negate, Sub, Literal: `unimplemented!()`.
VisitUnimplemented(index) == {PanicOutcome("Unimplemented")}

\* The outcomes of the callback on node `index`: one store, or a panic.
CallbackOutcomes(w, index) ==
    LET o == NodeOp(index) IN
    CASE o.op = "InputCiphertext" -> VisitInput(index, o.a)
      [] o.op = "Add" -> VisitAdd(w, index, o.a, o.b)
      [] o.op = "Multiply" -> VisitMultiply(w, index, o.a, o.b)
      [] o.op = "Relinearize" -> VisitRelinearize(w, index, o.a)
      [] o.op = "OutputCiphertext" -> VisitOutput(w, index, o.a)
      [] OTHER -> VisitUnimplemented(index)

-----------------------------------------------------------------------------
(* parallel_traverse: the worker loop *)

\* `let mut updated_count = false;`
InitialUpdatedCount == FALSE

\* The condition of the loop that claims an item of the remaining-count.
ClaimLoopRuns(updated_count) == updated_count

\* Top of the worker loop up to the receive: with the claim loop running, a
\* worker that loads zero returns, another one wins the compare-exchange on
\* some attempt and has decremented the count by one.
LoopHead(w) ==
    /\ main_pc = "traverse"
    /\ pc[w] = "loop"
    /\ IF ClaimLoopRuns(InitialUpdatedCount)
       THEN IF items_remaining = 0
            THEN /\ pc' = [pc EXCEPT ![w] = "exited"]
                 /\ UNCHANGED items_remaining
            ELSE /\ pc' = [pc EXCEPT ![w] = "recv"]
                 /\ items_remaining' = items_remaining - 1
       ELSE /\ pc' = [pc EXCEPT ![w] = "recv"]
            /\ UNCHANGED items_remaining
    /\ UNCHANGED <<ir, inputs, relin_keys, data, deps, queue, node_id, pending,
                   panic_msg, main_pc, output, visits, completed, taken>>
    /\ UNCHANGED <<zkvars, auxvars>>

\* reciever.recv().unwrap(): blocks while the channel is empty; the sender is
\* never dropped while workers run, so it never fails.
Recv(w) ==
    /\ main_pc = "traverse"
    /\ pc[w] = "recv"
    /\ queue # <<>>
    /\ node_id' = [node_id EXCEPT ![w] = Head(queue)]
    /\ queue' = Tail(queue)
    /\ taken' = taken + 1
    /\ pc' = [pc EXCEPT ![w] = "callback"]
    /\ UNCHANGED <<ir, inputs, relin_keys, data, deps, items_remaining, pending,
                   panic_msg, main_pc, output, visits, completed>>
    /\ UNCHANGED <<zkvars, auxvars>>

\* callback(node_id) up to its store: reads the operands and computes, or panics.
Callback(w) ==
    /\ main_pc = "traverse"
    /\ pc[w] = "callback"
    /\ visits' = [visits EXCEPT ![node_id[w]] = @ + 1]
    /\ \E o \in CallbackOutcomes(w, node_id[w]) :
         IF o.kind = "panic"
         THEN /\ pc' = [pc EXCEPT ![w] = "panicked"]
              /\ panic_msg' = [panic_msg EXCEPT ![w] = o.msg]
              /\ UNCHANGED pending
         ELSE /\ pc' = [pc EXCEPT ![w] = "store"]
              /\ pending' = [pending EXCEPT ![w] = [slot |-> o.slot, val |-> o.val]]
              /\ UNCHANGED panic_msg
    /\ UNCHANGED <<ir, inputs, relin_keys, data, deps, items_remaining, queue,
                   node_id, main_pc, output, completed, taken>>
    /\ UNCHANGED <<zkvars, auxvars>>

\* data[..].store(Some(..)), the last statement of the callback.
Store(w) ==
    /\ main_pc = "traverse"
    /\ pc[w] = "store"
    /\ data' = [data EXCEPT ![pending[w].slot] = Some(pending[w].val)]
    /\ completed' = completed \cup {node_id[w]}
    /\ pc' = [pc EXCEPT ![w] = "notify"]
    /\ UNCHANGED <<ir, inputs, relin_keys, deps, items_remaining, queue, node_id,
                   pending, panic_msg, main_pc, output, visits, taken>>
    /\ UNCHANGED <<zkvars, auxvars>>

RECURSIVE NotifyLoop(_, _, _)
\* for e in neighbors_directed(node_id, Outgoing): fetch_sub(1), send when the
\* value before the subtraction was 1.
NotifyLoop(es, d, q) ==
    IF es = <<>> THEN [deps |-> d, queue |-> q]
    ELSE LET e == Head(es)
             old_val == d[e]
         IN  NotifyLoop(Tail(es), [d EXCEPT ![e] = WrappingDec(old_val)],
                        IF old_val = 1 THEN Append(q, e) ELSE q)

Notify(w) ==
    /\ main_pc = "traverse"
    /\ pc[w] = "notify"
    /\ LET r == NotifyLoop(neighbors_outgoing(ir, node_id[w]), deps, queue)
       IN  /\ deps' = r.deps
           /\ queue' = r.queue
    /\ pc' = [pc EXCEPT ![w] = "loop"]
    /\ UNCHANGED <<ir, inputs, relin_keys, data, items_remaining, node_id,
                   pending, panic_msg, main_pc, output, visits, completed, taken>>
    /\ UNCHANGED <<zkvars, auxvars>>

-----------------------------------------------------------------------------
(* run_program_unchecked: after the traversal *)

RECURSIVE CollectFrom(_)
\* The slots read for the output vector, in node-index order.
CollectFrom(i) ==
    IF i >= node_count THEN <<>>
    ELSE IF NodeOp(i).op = "OutputCiphertext"
         THEN <<data[NodeOp(i).a]>> \o CollectFrom(i + 1)
         ELSE CollectFrom(i + 1)

\* The scope of the pool ends when every worker has returned or panicked: it
\* re-raises a worker's panic, otherwise parallel_traverse returns and the
\* outputs are copied out (get_ciphertext panics on an empty slot).
ScopeJoin ==
    /\ main_pc = "traverse"
    /\ \A w \in Workers : pc[w] \in {"exited", "panicked"}
    /\ LET slots == CollectFrom(0) IN
       IF \E w \in Workers : pc[w] = "panicked"
       THEN /\ main_pc' = "panicked"
            /\ UNCHANGED output
       ELSE IF \E k \in 1..Len(slots) : slots[k] = None
       THEN /\ main_pc' = "panicked"
            /\ UNCHANGED output
       ELSE /\ main_pc' = "returned"
            /\ output' = [k \in 1..Len(slots) |-> Unwrap(slots[k]).ct]
    /\ UNCHANGED <<ir, inputs, relin_keys, data, deps, items_remaining, queue, pc,
                   node_id, pending, panic_msg, visits, completed, taken>>
    /\ UNCHANGED <<zkvars, auxvars>>

NextRT ==
    \/ \E w \in Workers : LoopHead(w)
    \/ \E w \in Workers : Recv(w)
    \/ \E w \in Workers : Callback(w)
    \/ \E w \in Workers : Store(w)
    \/ \E w \in Workers : Notify(w)
    \/ ScopeJoin

SpecRT == InitRT /\ [][NextRT]_vars

-----------------------------------------------------------------------------
(* The scalar field, scaled down: a small prime stands for the Ristretto     *)
(* scalar-field modulus 2^252 + 27742317777372353535851937790883648493.      *)

FIELD_MODULUS == 43

\* No BigInt (Option<BigInt> is None)
NoValue == -1

\* Scalar::try_from(BigInt): only values below the modulus convert.
InRange(x) == x >= 0 /\ x < FIELD_MODULUS

FAdd(x, y) == (x + y) % FIELD_MODULUS
FMul(x, y) == (x * y) % FIELD_MODULUS
FNeg(x) == (FIELD_MODULUS - x) % FIELD_MODULUS
FSub(x, y) == FAdd(x, FNeg(y))

-----------------------------------------------------------------------------
(* bulletproofs::r1cs: variables and linear combinations. A linear          *)
(* combination is its list of (variable, coefficient) terms.                 *)

Var(k, i) == [k |-> k, i |-> i]
One == Var("One", 0)

Term(v, c) == [v |-> v, c |-> c]

LcOfVar(v) == <<Term(v, 1)>>
LcOfScalar(x) == <<Term(One, x)>>
LcAdd(x, y) == x \o y
LcNeg(x) == [k \in DOMAIN x |-> Term(x[k].v, FNeg(x[k].c))]
LcSub(x, y) == x \o LcNeg(y)
LcMulScalar(x, y) == [k \in DOMAIN x |-> Term(x[k].v, FMul(x[k].c, y))]

-----------------------------------------------------------------------------
(* enum Node and its arithmetic *)

NodeLC(x) == [kind |-> "LinearCombination", lc |-> x, s |-> 0]
NodeScalar(x) == [kind |-> "Scalar", lc |-> <<>>, s |-> x]

IsLC(n) == n.kind = "LinearCombination"

NodeAdd(x, y) ==
    CASE IsLC(x) /\ IsLC(y) -> NodeLC(LcAdd(x.lc, y.lc))
      [] IsLC(x) /\ ~IsLC(y) -> NodeLC(LcAdd(x.lc, LcOfScalar(y.s)))
      [] ~IsLC(x) /\ IsLC(y) -> NodeLC(LcAdd(y.lc, LcOfScalar(x.s)))
      [] OTHER -> NodeScalar(FAdd(x.s, y.s))

\* Node * Node; LinearCombination * LinearCombination panics.
IllegalOperation == [kind |-> "IllegalOperation", lc |-> <<>>, s |-> 0]

\* A fold whose Scalar * Scalar arm wraps the product in a linear combination
NodeMulWrapsScalars(x, y) ==
    CASE IsLC(x) /\ IsLC(y) -> IllegalOperation
      [] IsLC(x) /\ ~IsLC(y) -> NodeLC(LcMulScalar(x.lc, y.s))
      [] ~IsLC(x) /\ IsLC(y) -> NodeLC(LcMulScalar(y.lc, x.s))
      [] OTHER -> NodeLC(LcOfScalar(FMul(x.s, y.s)))

\* A fold that combines two linear combinations instead of refusing them
NodeMulCombines(x, y) ==
    CASE IsLC(x) /\ IsLC(y) -> NodeLC(LcAdd(x.lc, y.lc))
      [] IsLC(x) /\ ~IsLC(y) -> NodeLC(LcMulScalar(x.lc, y.s))
      [] ~IsLC(x) /\ IsLC(y) -> NodeLC(LcMulScalar(y.lc, x.s))
      [] OTHER -> NodeScalar(FMul(x.s, y.s))

NodeMul(x, y) ==
    CASE IsLC(x) /\ IsLC(y) -> IllegalOperation
      [] IsLC(x) /\ ~IsLC(y) -> NodeLC(LcMulScalar(x.lc, y.s))
      [] ~IsLC(x) /\ IsLC(y) -> NodeLC(LcMulScalar(y.lc, x.s))
      [] OTHER -> NodeScalar(FMul(x.s, y.s))

NodeSub(x, y) ==
    CASE IsLC(x) /\ IsLC(y) -> NodeLC(LcSub(x.lc, y.lc))
      [] IsLC(x) /\ ~IsLC(y) -> NodeLC(LcSub(x.lc, LcOfScalar(y.s)))
      [] ~IsLC(x) /\ IsLC(y) -> NodeLC(LcAdd(LcNeg(y.lc), LcOfScalar(x.s)))
      [] OTHER -> NodeScalar(FSub(x.s, y.s))

NodeNeg(x) ==
    IF IsLC(x) THEN NodeLC(LcNeg(x.lc)) ELSE NodeScalar(FNeg(x.s))

-----------------------------------------------------------------------------
(* bulletproofs::r1cs: the constraint system behind Prover and Verifier.    *)
(* The prover keeps the assignments a_L, a_R, a_O of every multiplier; the  *)
(* verifier only counts them.                                                *)

NewCS(mode) == [mode |-> mode, a_L |-> <<>>, a_R |-> <<>>, a_O |-> <<>>,
                num_vars |-> 0, pending_multiplier |-> None, constraints |-> <<>>]

\* The value the prover's assignment gives a variable.
VarValue(c, v) ==
    CASE v.k = "One" -> 1
      [] v.k = "MultiplierLeft" -> c.a_L[v.i + 1]
      [] v.k = "MultiplierRight" -> c.a_R[v.i + 1]
      [] OTHER -> c.a_O[v.i + 1]

RECURSIVE LcEval(_, _)
LcEval(c, x) ==
    IF x = <<>> THEN 0
    ELSE FAdd(FMul(Head(x).c, VarValue(c, Head(x).v)), LcEval(c, Tail(x)))

\* cs.allocate(assignment): [ok, cs, var]. The prover needs the assignment;
\* variables are handed out as the left, then the right wire of a multiplier.
Allocate(c, assignment) ==
    IF c.mode = "prover" /\ assignment = None
    THEN [ok |-> FALSE, cs |-> c, var |-> One]
    ELSE IF c.pending_multiplier = None
    THEN LET i == c.num_vars IN
         [ok |-> TRUE,
          cs |-> [c EXCEPT !.num_vars = i + 1,
                           !.pending_multiplier = Some(i),
                           !.a_L = IF c.mode = "prover" THEN Append(@, Unwrap(assignment)) ELSE @,
                           !.a_R = IF c.mode = "prover" THEN Append(@, 0) ELSE @,
                           !.a_O = IF c.mode = "prover" THEN Append(@, 0) ELSE @],
          var |-> Var("MultiplierLeft", i)]
    ELSE LET i == Unwrap(c.pending_multiplier) IN
         [ok |-> TRUE,
          cs |-> [c EXCEPT !.pending_multiplier = None,
                           !.a_R = IF c.mode = "prover"
                                   THEN [@ EXCEPT ![i + 1] = Unwrap(assignment)] ELSE @,
                           !.a_O = IF c.mode = "prover"
                                   THEN [@ EXCEPT ![i + 1] = FMul(c.a_L[i + 1], Unwrap(assignment))]
                                   ELSE @],
          var |-> Var("MultiplierRight", i)]

\* cs.multiply(left, right): a new multiplier whose left and right wires are
\* constrained to the two combinations; [cs, o] with o the output wire.
Multiply(c, left, right) ==
    LET i == c.num_vars
        l == IF c.mode = "prover" THEN LcEval(c, left) ELSE 0
        r == IF c.mode = "prover" THEN LcEval(c, right) ELSE 0
    IN  [cs |-> [c EXCEPT !.num_vars = i + 1,
                          !.a_L = IF c.mode = "prover" THEN Append(@, l) ELSE @,
                          !.a_R = IF c.mode = "prover" THEN Append(@, r) ELSE @,
                          !.a_O = IF c.mode = "prover" THEN Append(@, FMul(l, r)) ELSE @,
                          !.constraints =
                              @ \o <<LcSub(left, LcOfVar(Var("MultiplierLeft", i))),
                                     LcSub(right, LcOfVar(Var("MultiplierRight", i)))>>],
         o |-> Var("MultiplierOutput", i)]

\* cs.constrain(lc)
Constrain(c, lc) == [c EXCEPT !.constraints = Append(@, lc)]

RECURSIVE NextPowerOfTwoFrom(_, _)
NextPowerOfTwoFrom(p, n) == IF p >= n THEN p ELSE NextPowerOfTwoFrom(2 * p, n)

\* usize::next_power_of_two: the smallest power of two >= n (1 for 0)
NextPowerOfTwo(n) == NextPowerOfTwoFrom(1, n)

\* Both Prover::prove and Verifier::verify refuse generators smaller than the
\* padded number of multipliers.
GeneratorsFit(c, capacity) == capacity >= NextPowerOfTwo(c.num_vars)

\* The prover's assignment satisfies every constraint of the system.
Satisfied(c) == \A k \in DOMAIN c.constraints : LcEval(c, c.constraints[k]) = 0

-----------------------------------------------------------------------------
(* The ZKP circuit graph and GraphQuery *)

Edge(src, dst, role) == [src |-> src, dst |-> dst, role |-> role]
ZNode(op, x) == [op |-> op, x |-> x]

zk_node_count(g) == Len(g.ops)
zk_node_indices(g) == 0..(Len(g.ops) - 1)
ZOp(g, i) == g.ops[i + 1]

Reverse(q) == [k \in 1..Len(q) |-> q[Len(q) + 1 - k]]

\* The incoming edges of n, latest edge first (the order petgraph walks them).
IncomingEdges(g, n) == Reverse(SelectSeq(g.edges, LAMBDA e : e.dst = n))
OutgoingEdges(g, n) == Reverse(SelectSeq(g.edges, LAMBDA e : e.src = n))

\* query.get_binary_operands(idx): the Left and the Right predecessor;
\* fails unless there is exactly one of each.
get_binary_operands(g, idx) ==
    LET left == SelectSeq(IncomingEdges(g, idx), LAMBDA e : e.role = "Left")
        right == SelectSeq(IncomingEdges(g, idx), LAMBDA e : e.role = "Right")
    IN  IF Len(left) = 1 /\ Len(right) = 1
        THEN [ok |-> TRUE, left |-> left[1].src, right |-> right[1].src]
        ELSE [ok |-> FALSE, left |-> -1, right |-> -1]

\* query.get_unary_operand(idx): the single predecessor, of any role.
get_unary_operand(g, idx) ==
    LET in == IncomingEdges(g, idx)
    IN  IF Len(in) = 1 THEN [ok |-> TRUE, left |-> in[1].src]
        ELSE [ok |-> FALSE, left |-> -1]

\* query.get_unordered_operands(idx): the Unordered predecessors.
get_unordered_operands(g, idx) ==
    LET un == SelectSeq(IncomingEdges(g, idx), LAMBDA e : e.role = "Unordered")
    IN  [k \in 1..Len(un) |-> un[k].src]

\* The number of Input nodes of the graph.
expected_input_count(g) == Cardinality({i \in zk_node_indices(g) : ZOp(g, i).op = "Input"})

RECURSIVE CountEveryInputFrom(_, _, _, _)
\* constraint_count without the pairing of inputs: each Input node counts.
CountEveryInputFrom(g, i, count, input_count) ==
    IF i >= zk_node_count(g) THEN [ok |-> TRUE, count |-> count]
    ELSE LET node == ZOp(g, i) IN
         CASE node.op \in {"Input", "Constraint"} ->
                CountEveryInputFrom(g, i + 1, count + 1, input_count)
           [] node.op = "Mul" ->
                LET q == get_binary_operands(g, i) IN
                IF ~q.ok THEN [ok |-> FALSE, count |-> 0]
                ELSE IF ZOp(g, q.left).op = "Constant" \/ ZOp(g, q.right).op = "Constant"
                THEN CountEveryInputFrom(g, i + 1, count, input_count)
                ELSE CountEveryInputFrom(g, i + 1, count + 1, input_count)
           [] OTHER -> CountEveryInputFrom(g, i + 1, count, input_count)

RECURSIVE CountEveryMulFrom(_, _, _, _)
\* constraint_count without the test for Constant operands: each Mul counts.
CountEveryMulFrom(g, i, count, input_count) ==
    IF i >= zk_node_count(g) THEN [ok |-> TRUE, count |-> count]
    ELSE LET node == ZOp(g, i) IN
         CASE node.op = "Input" ->
                CountEveryMulFrom(g, i + 1,
                                  IF input_count % 2 = 0 THEN count + 1 ELSE count,
                                  input_count + 1)
           [] node.op = "Constraint" ->
                CountEveryMulFrom(g, i + 1, count + 1, input_count)
           [] node.op = "Mul" ->
                IF ~get_binary_operands(g, i).ok THEN [ok |-> FALSE, count |-> 0]
                ELSE CountEveryMulFrom(g, i + 1, count + 1, input_count)
           [] OTHER -> CountEveryMulFrom(g, i + 1, count, input_count)

RECURSIVE ConstraintCountFrom(_, _, _, _)
\* The loop of constraint_count from node i on, with its two counters.
ConstraintCountFrom(g, i, count, input_count) ==
    IF i >= zk_node_count(g) THEN [ok |-> TRUE, count |-> count]
    ELSE LET node == ZOp(g, i) IN
         CASE node.op = "Input" ->
                ConstraintCountFrom(g, i + 1,
                                    IF input_count % 2 = 0 THEN count + 1 ELSE count,
                                    input_count + 1)
           [] node.op = "Constraint" ->
                ConstraintCountFrom(g, i + 1, count + 1, input_count)
           [] node.op = "Mul" ->
                LET q == get_binary_operands(g, i) IN
                IF ~q.ok THEN [ok |-> FALSE, count |-> 0]
                ELSE IF ZOp(g, q.left).op = "Constant" \/ ZOp(g, q.right).op = "Constant"
                THEN ConstraintCountFrom(g, i + 1, count, input_count)
                ELSE ConstraintCountFrom(g, i + 1, count + 1, input_count)
           [] OTHER -> ConstraintCountFrom(g, i + 1, count, input_count)

constraint_count(g) == ConstraintCountFrom(g, 0, 0, 0)

-----------------------------------------------------------------------------
(* BulletproofsCircuit::gen_circuit: the visit of one node. The state of a  *)
(* visit is st = [nodes, ucc, cs, log]; a visit gives [st, err].             *)

LogEntry(call, x, y, var) == [call |-> call, x |-> x, y |-> y, var |-> var]

Visited(st, err) == [st |-> st, err |-> err]

\* ref_count without the release of the slot: the counter is decremented only.
RefCountNeverClears(st, idx) ==
    [st EXCEPT !.ucc = [@ EXCEPT ![idx] = WrappingDec(st.ucc[idx])]]

\* The ref_count closure: one consumer of idx has been processed.
RefCount(st, idx) ==
    LET c == WrappingDec(st.ucc[idx]) IN
    [st EXCEPT !.ucc = [@ EXCEPT ![idx] = c],
               !.nodes = IF c = 0 THEN [@ EXCEPT ![idx] = None] ELSE @]

\* The slot written by a node that produces a value.
StoreNode(st, idx, n) == [st EXCEPT !.nodes = [@ EXCEPT ![idx] = Some(n)]]

\* get_input(x): Some(inputs[x]) for the prover, None for the verifier.
GetInput(mode, ins, x) ==
    IF mode = "prover" THEN Some(ins[x + 1]) ELSE None

\* An allocation that takes a second wire it does not use
VisitAllocateTwice(st, idx, assignment) ==
    LET r == Allocate(st.cs, assignment)
        r2 == Allocate(r.cs, assignment)
        logged == [st EXCEPT !.log = @ \o <<LogEntry("allocate", <<>>, <<>>, r.var),
                                            LogEntry("allocate", <<>>, <<>>, r2.var)>>]
    IN  IF ~r.ok THEN Visited(logged, "MissingAssignment")
        ELSE Visited(StoreNode([logged EXCEPT !.cs = r2.cs], idx, NodeLC(LcOfVar(r.var))), "")

\* An allocation that stores the assigned value itself when there is one
VisitAllocateStoresKnown(st, idx, assignment) ==
    LET r == Allocate(st.cs, assignment)
        logged == [st EXCEPT !.log = Append(@, LogEntry("allocate", <<>>, <<>>, r.var))]
    IN  IF ~r.ok THEN Visited(logged, "MissingAssignment")
        ELSE Visited(StoreNode([logged EXCEPT !.cs = r.cs], idx,
                               IF assignment = None THEN NodeLC(LcOfVar(r.var))
                               ELSE NodeScalar(Unwrap(assignment))), "")

\* cs.allocate(assignment)?, then the wire is stored as the node's operand.
VisitAllocate(st, idx, assignment) ==
    LET r == Allocate(st.cs, assignment)
        logged == [st EXCEPT !.log = Append(@, LogEntry("allocate", <<>>, <<>>, r.var))]
    IN  IF ~r.ok THEN Visited(logged, "MissingAssignment")
        ELSE Visited(StoreNode([logged EXCEPT !.cs = r.cs], idx, NodeLC(LcOfVar(r.var))), "")

\* An Input arm that allocates no wire when there is no input value
VisitInputUnlessVerifier(st, idx, x, mode, ins) ==
    IF mode = "prover" /\ x >= Len(ins) THEN Visited(st, "panic: index out of bounds")
    ELSE IF mode = "verifier" THEN Visited(StoreNode(st, idx, NodeScalar(0)), "")
    ELSE VisitAllocate(st, idx, GetInput(mode, ins, x))

VisitInputNode(st, idx, x, mode, ins) ==
    IF mode = "prover" /\ x >= Len(ins) THEN Visited(st, "panic: index out of bounds")
    ELSE VisitAllocate(st, idx, GetInput(mode, ins, x))

VisitHiddenInput(st, idx, x) ==
    IF x # NoValue /\ ~InRange(x) THEN Visited(st, "OutOfRange")
    ELSE VisitAllocate(st, idx, IF x = NoValue THEN None ELSE Some(x))

\* A binary arm whose Mul always goes through the fold of the two operands
VisitBinaryAlwaysFolds(st, g, idx, op) ==
    LET q == get_binary_operands(g, idx) IN
    IF ~q.ok THEN Visited(st, "MalformedEdges")
    ELSE IF st.nodes[q.left] = None \/ st.nodes[q.right] = None
    THEN Visited(st, "panic: dependency not found")
    ELSE LET left == Unwrap(st.nodes[q.left])
             right == Unwrap(st.nodes[q.right])
             stored ==
                 CASE op = "Add" -> StoreNode(st, idx, NodeAdd(left, right))
                   [] op = "Sub" -> StoreNode(st, idx, NodeSub(left, right))
                   [] OTHER -> StoreNode(st, idx, NodeMul(left, right))
         IN  IF Unwrap(stored.nodes[idx]) = IllegalOperation
             THEN Visited(st, "panic: Illegal operation.")
             ELSE Visited(RefCount(RefCount(stored, q.left), q.right), "")

\* Add, Sub and Mul: both operands are read, the result is stored, then the
\* two operands are released.
VisitBinary(st, g, idx, op) ==
    LET q == get_binary_operands(g, idx) IN
    IF ~q.ok THEN Visited(st, "MalformedEdges")
    ELSE IF st.nodes[q.left] = None \/ st.nodes[q.right] = None
    THEN Visited(st, "panic: dependency not found")
    ELSE LET left == Unwrap(st.nodes[q.left])
             right == Unwrap(st.nodes[q.right])
             m == Multiply(st.cs, left.lc, right.lc)
             stored ==
                 CASE op = "Add" -> StoreNode(st, idx, NodeAdd(left, right))
                   [] op = "Sub" -> StoreNode(st, idx, NodeSub(left, right))
                   [] op = "Mul" /\ IsLC(left) /\ IsLC(right) ->
                        StoreNode([st EXCEPT !.cs = m.cs,
                                             !.log = Append(@, LogEntry("multiply", left.lc,
                                                                        right.lc, m.o))],
                                  idx, NodeLC(LcOfVar(m.o)))
                   [] OTHER -> StoreNode(st, idx, NodeMul(left, right))
         IN  IF Unwrap(stored.nodes[idx]) = IllegalOperation
             THEN Visited(st, "panic: Illegal operation.")
             ELSE Visited(RefCount(RefCount(stored, q.left), q.right), "")

VisitNeg(st, g, idx) ==
    LET q == get_unary_operand(g, idx) IN
    IF ~q.ok THEN Visited(st, "MalformedEdges")
    ELSE IF st.nodes[q.left] = None THEN Visited(st, "panic: dependency not found")
    ELSE Visited(RefCount(StoreNode(st, idx, NodeNeg(Unwrap(st.nodes[q.left]))), q.left), "")

RECURSIVE ConstraintLoopAcceptsScalars(_, _, _)
\* A loop that never compares a Scalar operand with x
ConstraintLoopAcceptsScalars(st, operands, x) ==
    IF operands = <<>> THEN Visited(st, "")
    ELSE LET o_idx == Head(operands) IN
         IF st.nodes[o_idx] = None THEN Visited(st, "panic: dependency not found")
         ELSE LET o == Unwrap(st.nodes[o_idx]) IN
              IF IsLC(o)
              THEN LET lc == LcSub(o.lc, LcOfScalar(x))
                       next == [st EXCEPT !.cs = Constrain(@, lc),
                                          !.log = Append(@, LogEntry("constrain", lc, <<>>, One))]
                   IN  ConstraintLoopAcceptsScalars(RefCount(next, o_idx), Tail(operands), x)
              ELSE ConstraintLoopAcceptsScalars(RefCount(st, o_idx), Tail(operands), x)

RECURSIVE ConstraintLoop(_, _, _)
\* for o_idx in operands: constrain(o - x) for a linear combination, compare
\* a Scalar with x, then release the operand.
ConstraintLoop(st, operands, x) ==
    IF operands = <<>> THEN Visited(st, "")
    ELSE LET o_idx == Head(operands) IN
         IF st.nodes[o_idx] = None THEN Visited(st, "panic: dependency not found")
         ELSE LET o == Unwrap(st.nodes[o_idx]) IN
              IF IsLC(o)
              THEN LET lc == LcSub(o.lc, LcOfScalar(x))
                       next == [st EXCEPT !.cs = Constrain(@, lc),
                                          !.log = Append(@, LogEntry("constrain", lc, <<>>, One))]
                   IN  ConstraintLoop(RefCount(next, o_idx), Tail(operands), x)
              ELSE IF x # o.s THEN Visited(st, "StaticConstraintMismatch")
              ELSE ConstraintLoop(RefCount(st, o_idx), Tail(operands), x)

VisitConstraint(st, g, idx, x) ==
    IF ~InRange(x) THEN Visited(st, "OutOfRange")
    ELSE ConstraintLoop(st, get_unordered_operands(g, idx), x)

\* A Constant arm that reduces its value instead of refusing it
VisitConstantReduces(st, idx, x) == Visited(StoreNode(st, idx, NodeScalar(x % FIELD_MODULUS)), "")

VisitConstant(st, idx, x) ==
    IF ~InRange(x) THEN Visited(st, "OutOfRange")
    ELSE Visited(StoreNode(st, idx, NodeScalar(x)), "")

\* The callback gen_circuit hands to forward_traverse.
VisitNode(st, g, idx, mode, ins) ==
    LET node == ZOp(g, idx) IN
    CASE node.op = "Input" -> VisitInputNode(st, idx, node.x, mode, ins)
      [] node.op = "HiddenInput" -> VisitHiddenInput(st, idx, node.x)
      [] node.op \in {"Add", "Sub", "Mul"} -> VisitBinary(st, g, idx, node.op)
      [] node.op = "Neg" -> VisitNeg(st, g, idx)
      [] node.op = "Constraint" -> VisitConstraint(st, g, idx, node.x)
      [] OTHER -> VisitConstant(st, idx, node.x)

\* A count of the incoming edges instead of the outgoing ones
InitialChildCountIncoming(g) == [n \in zk_node_indices(g) |-> Len(IncomingEdges(g, n))]

\* unprocessed_child_count before the traversal: graph.neighbors(n).count()
InitialChildCount(g) == [n \in zk_node_indices(g) |-> Len(OutgoingEdges(g, n))]

-----------------------------------------------------------------------------
(* forward_traverse: nodes become ready when every incoming edge comes from *)
(* a visited node. Which ready node is visited next is a tie-break the      *)
(* driver fixes; every such policy walks the graph in one of its            *)
(* topological orders, the same one on every traversal of that graph.       *)

InitialPending(g) == [n \in zk_node_indices(g) |-> Len(IncomingEdges(g, n))]

InitiallyReadyZ(g) == {n \in zk_node_indices(g) : Len(IncomingEdges(g, n)) = 0}

\* The position of node n in the order q
Position(q, n) == CHOOSE k \in DOMAIN q : q[k] = n

\* The orders a tie-break can give: every edge goes forward.
TopologicalOrders(g) ==
    {q \in Perms(zk_node_indices(g)) :
        \A k \in DOMAIN g.edges :
            Position(q, g.edges[k].src) < Position(q, g.edges[k].dst)}

\* The ready node the tie-break visits next
NextReady(q, rdy) == CHOOSE n \in rdy : \A m \in rdy : Position(q, n) <= Position(q, m)

\* A driver that never counts a pending counter down
PendingNeverDecremented(p, es) == p

RECURSIVE PendingAfter(_, _)
\* The pending counters once each outgoing edge in es has been counted down.
PendingAfter(p, es) ==
    IF es = <<>> THEN p
    ELSE PendingAfter([p EXCEPT ![Head(es).dst] = @ - 1], Tail(es))

-----------------------------------------------------------------------------
(* The graphs and inputs under test *)

MaxZNodes == 2            \* every circuit graph of up to this many nodes is tried
MaxInputIndex == 1        \* Input(x) nodes carry x in 0..MaxInputIndex
MaxConstraintOperands == 2

\* BigInt payloads: two field elements and one value that is out of range
ZValues == {1, 2, FIELD_MODULUS}

\* The nodes of g that produce a value a later node can consume.
Producers(g) == {n \in zk_node_indices(g) : ZOp(g, n).op # "Constraint"}

\* Sequences of 1..MaxConstraintOperands distinct producers
OperandLists(S) ==
    {q \in UNION {[1..n -> S] : n \in 1..MaxConstraintOperands} :
        \A a, b \in DOMAIN q : a # b => q[a] # q[b]}

\* What add_node(op, edges) can append to g as node i: an operation and its
\* incoming edges from nodes already in the graph.
Appendable(g, i) ==
    {[node |-> ZNode("Input", x), in |-> <<>>] : x \in 0..MaxInputIndex}
    \cup {[node |-> ZNode("HiddenInput", x), in |-> <<>>] : x \in {NoValue} \cup ZValues}
    \cup {[node |-> ZNode("Constant", x), in |-> <<>>] : x \in ZValues}
    \cup {[node |-> ZNode(op, NoValue),
           in |-> <<Edge(l, i, "Left"), Edge(r, i, "Right")>>] :
             op \in {"Add", "Sub", "Mul"}, l \in Producers(g), r \in Producers(g)}
    \cup {[node |-> ZNode("Neg", NoValue), in |-> <<Edge(a, i, "Left")>>] : a \in Producers(g)}
    \cup {[node |-> ZNode("Constraint", x),
           in |-> [k \in DOMAIN q |-> Edge(q[k], i, "Unordered")]] :
             x \in ZValues, q \in OperandLists(Producers(g))}

add_node(g, a) == [ops |-> Append(g.ops, a.node), edges |-> g.edges \o a.in]

EmptyGraph == [ops |-> <<>>, edges |-> <<>>]

RECURSIVE ZGraphsOfLen(_)
ZGraphsOfLen(n) ==
    IF n = 0 THEN {EmptyGraph}
    ELSE UNION {{add_node(g, a) : a \in Appendable(g, n - 1)} : g \in ZGraphsOfLen(n - 1)}

\* The graph of the can_run_simple_proof test: i2 + i0 * i1 constrained to 42
SimpleProofGraph ==
    [ops |-> <<ZNode("Input", 0), ZNode("Input", 1), ZNode("Input", 2),
               ZNode("Mul", NoValue), ZNode("Add", NoValue), ZNode("Constraint", 42)>>,
     edges |-> <<Edge(0, 3, "Left"), Edge(1, 3, "Right"),
                 Edge(2, 4, "Left"), Edge(3, 4, "Right"),
                 Edge(4, 5, "Unordered")>>]

SimpleProofInputs == {<<10, 4, 2>>, <<8, 5, 2>>, <<8, 5, 3>>}

\* Three hidden inputs and nothing else
HiddenTripleGraph ==
    [ops |-> <<ZNode("HiddenInput", 1), ZNode("HiddenInput", 2), ZNode("HiddenInput", 1)>>,
     edges |-> <<>>]

\* i0 * i0 constrained to x
SquareGraph(x) ==
    [ops |-> <<ZNode("Input", 0), ZNode("Mul", NoValue), ZNode("Constraint", x)>>,
     edges |-> <<Edge(0, 1, "Left"), Edge(0, 1, "Right"), Edge(1, 2, "Unordered")>>]

\* 2 * i0 - h constrained to x, and i0 left without a further consumer
ScaledGraph(x) ==
    [ops |-> <<ZNode("Input", 0), ZNode("Constant", 2), ZNode("HiddenInput", 1),
               ZNode("Mul", NoValue), ZNode("Sub", NoValue), ZNode("Constraint", x)>>,
     edges |-> <<Edge(1, 3, "Left"), Edge(0, 3, "Right"),
                 Edge(3, 4, "Left"), Edge(2, 4, "Right"),
                 Edge(4, 5, "Unordered")>>]

\* i0 * 2 and 2 * 2: a linear combination times a Scalar on its right, and
\* two Scalars
FoldGraph ==
    [ops |-> <<ZNode("Input", 0), ZNode("Constant", 2), ZNode("Mul", NoValue),
               ZNode("Mul", NoValue)>>,
     edges |-> <<Edge(0, 2, "Left"), Edge(1, 2, "Right"),
                 Edge(1, 3, "Left"), Edge(1, 3, "Right")>>]

\* i0 and the constant 2 both constrained to x by one Constraint node, the
\* edge of the constant added first or last
MixedConstraintGraph(x, first) ==
    [ops |-> <<ZNode("Input", 0), ZNode("Constant", 2), ZNode("Constraint", x)>>,
     edges |-> IF first
               THEN <<Edge(1, 2, "Unordered"), Edge(0, 2, "Unordered")>>
               ELSE <<Edge(0, 2, "Unordered"), Edge(1, 2, "Unordered")>>]

\* Malformed operand edges: an Add (or a Neg) whose Right edge is missing
\* (whose only edge is doubled), next to a constant
MalformedGraph(op) ==
    [ops |-> <<ZNode("Input", 0), ZNode(op, NoValue), ZNode("Constant", 1)>>,
     edges |-> IF op = "Neg" THEN <<Edge(0, 1, "Left"), Edge(0, 1, "Left")>>
               ELSE <<Edge(0, 1, "Left")>>]

\* A Neg whose one predecessor is a Constraint node: the edges are as the
\* operations want them, but the operand is a node that stores no value
ConsumedConstraintGraph ==
    [ops |-> <<ZNode("Input", 0), ZNode("Constraint", 1), ZNode("Neg", NoValue)>>,
     edges |-> <<Edge(0, 1, "Unordered"), Edge(1, 2, "Left")>>]

\* Larger circuits tried besides the enumerated ones
LargerGraphs ==
    {SimpleProofGraph, HiddenTripleGraph, FoldGraph, ConsumedConstraintGraph}
    \cup {MalformedGraph(op) : op \in {"Add", "Neg"}}
    \cup {MixedConstraintGraph(x, first) : x \in {1, 2}, first \in BOOLEAN}
    \cup {SquareGraph(x) : x \in {1, 2}}
    \cup {ScaledGraph(x) : x \in {1, 2}}

ZGraphs == UNION {ZGraphsOfLen(n) : n \in 1..MaxZNodes} \cup LargerGraphs

\* The input vectors tried on g: every vector of field elements of the
\* expected length, one that is too short, one that is too long, and one
\* with a value that is out of range.
InputsFor(g) ==
    IF g = SimpleProofGraph THEN SimpleProofInputs
    ELSE LET k == expected_input_count(g) IN
         [1..k -> {1, 2}]
         \cup {[i \in 1..(k + 1) |-> 1]}
         \cup (IF k = 0 THEN {}
               ELSE {[i \in 1..(k - 1) |-> 1],
                     [i \in 1..k |-> IF i = 1 THEN FIELD_MODULUS ELSE 1]})

\* A proof of another backend family
ForeignProof == [tag |-> "Custom", gen_len |-> 0, num_vars |-> 0, constraints |-> <<>>,
                 satisfied |-> FALSE]

\* A Bulletproofs proof that was not made by this prove call: the proof of an
\* empty circuit
StrayProof == [tag |-> "Bulletproofs", gen_len |-> 0, num_vars |-> 0, constraints |-> <<>>,
               satisfied |-> TRUE]

InitZK ==
    /\ graph \in ZGraphs
    /\ prove_inputs \in InputsFor(graph)
    /\ tie_break \in TopologicalOrders(graph)
    /\ phase = "idle"
    /\ nodes = <<>>
    /\ unprocessed_child_count = <<>>
    /\ ready = {}
    /\ pend = <<>>
    /\ order = <<>>
    /\ prove_log = <<>>
    /\ cs = NoCS
    /\ cs_log = <<>>
    /\ gens = NoGens
    /\ proof = NoProof
    /\ prove_result = "none"
    /\ verify_result = "none"
    /\ RTUnused
    /\ AuxUnused

-----------------------------------------------------------------------------
(* BulletproofsBackend::prove and ::verify *)

\* The first check with a test for too few inputs only
TooFewInputs(g, ins) == expected_input_count(g) > Len(ins)

\* prove's first check
InputsMismatch(g, ins) == expected_input_count(g) # Len(ins)

\* make_transcript(constraint_count) and make_gens(2 * constraint_count)
MakeGens(count) == [transcript |-> count, capacity |-> NextPowerOfTwo(2 * count)]

\* BulletproofsCircuit::new(graph.node_count()) and the start of gen_circuit:
\* the operand table is empty, the child counts and the traversal are set up.
GenCircuitStart(mode) ==
    /\ nodes' = [n \in zk_node_indices(graph) |-> None]
    /\ unprocessed_child_count' = InitialChildCount(graph)
    /\ ready' = InitiallyReadyZ(graph)
    /\ pend' = InitialPending(graph)
    /\ order' = <<>>
    /\ cs' = NewCS(mode)
    /\ cs_log' = <<>>

\* prove up to the call of gen_circuit
ProveBegin ==
    /\ phase = "idle"
    /\ LET cc == constraint_count(graph)
           err == IF InputsMismatch(graph, prove_inputs) THEN "InputsMismatch"
                  ELSE IF ~cc.ok THEN "MalformedEdges"
                  ELSE IF \E k \in DOMAIN prove_inputs : ~InRange(prove_inputs[k])
                  THEN "OutOfRange"
                  ELSE ""
       IN  IF err # ""
           THEN /\ phase' = "prove_returned"
                /\ prove_result' = err
                /\ UNCHANGED <<nodes, unprocessed_child_count, ready, pend, order, cs,
                               cs_log, gens>>
           ELSE /\ phase' = "prove_gen"
                /\ gens' = MakeGens(cc.count)
                /\ GenCircuitStart("prover")
                /\ UNCHANGED prove_result
    /\ UNCHANGED <<graph, prove_inputs, tie_break, prove_log, proof, verify_result>>
    /\ UNCHANGED <<rtvars, auxvars>>

\* One step of forward_traverse inside gen_circuit: a ready node is visited;
\* an error (or panic) of the visit ends the traversal and the call.
GenVisit ==
    /\ phase \in {"prove_gen", "verify_gen"}
    /\ ready # {}
    /\ LET idx == NextReady(tie_break, ready)
            mode == IF phase = "prove_gen" THEN "prover" ELSE "verifier"
            st == [nodes |-> nodes, ucc |-> unprocessed_child_count, cs |-> cs,
                   log |-> cs_log]
            v == VisitNode(st, graph, idx, mode, prove_inputs)
            p == PendingAfter(pend, OutgoingEdges(graph, idx))
            failed == IF SubSeq(v.err, 1, 5) = "panic" THEN "panic" ELSE v.err
        IN  /\ nodes' = v.st.nodes
            /\ unprocessed_child_count' = v.st.ucc
            /\ cs' = v.st.cs
            /\ cs_log' = v.st.log
            /\ order' = Append(order, idx)
            /\ IF v.err = ""
               THEN /\ pend' = p
                    /\ ready' = (ready \ {idx})
                                  \cup {n \in zk_node_indices(graph) : pend[n] > 0 /\ p[n] = 0}
                    /\ UNCHANGED <<phase, prove_result, verify_result>>
               ELSE /\ UNCHANGED <<pend, ready>>
                    /\ IF phase = "prove_gen"
                       THEN /\ phase' = "prove_returned"
                            /\ prove_result' = failed
                            /\ UNCHANGED verify_result
                       ELSE /\ phase' = "verify_returned"
                            /\ verify_result' = failed
                            /\ UNCHANGED prove_result
    /\ UNCHANGED <<graph, prove_inputs, tie_break, prove_log, gens, proof>>
    /\ UNCHANGED <<rtvars, auxvars>>

\* prove after gen_circuit returned Ok: prover.prove(&bulletproof_gens)
ProveEnd ==
    /\ phase = "prove_gen"
    /\ ready = {}
    /\ phase' = "prove_returned"
    /\ IF GeneratorsFit(cs, gens.capacity)
       THEN /\ prove_result' = "Ok"
            /\ proof' = [tag |-> "Bulletproofs", gen_len |-> gens.transcript,
                         num_vars |-> cs.num_vars, constraints |-> cs.constraints,
                         satisfied |-> Satisfied(cs)]
       ELSE /\ prove_result' = "InvalidGeneratorsLength"
            /\ UNCHANGED proof
    /\ prove_log' = cs_log
    /\ UNCHANGED <<graph, prove_inputs, tie_break, nodes, unprocessed_child_count, ready, pend,
                   order, cs, cs_log, gens, verify_result>>
    /\ UNCHANGED <<rtvars, auxvars>>

\* verify without the tag test
AnyProofType(p) == TRUE

\* The tag test at the head of verify
IsBulletproofs(p) == p.tag = "Bulletproofs"

\* verify up to the call of gen_circuit, on a proof of another backend family
\* or on a Bulletproofs proof: the one prove returned, or one made elsewhere
\* when prove returned none.
VerifyBegin ==
    /\ phase \in {"idle", "prove_returned"}
    /\ \E p \in {ForeignProof} \cup (IF prove_result = "Ok" THEN {proof} ELSE {StrayProof}) :
        LET cc == constraint_count(graph)
            err == IF ~IsBulletproofs(p) THEN "IncorrectProofType"
                   ELSE IF ~cc.ok THEN "MalformedEdges"
                   ELSE ""
        IN  /\ proof' = p
            /\ IF err # ""
               THEN /\ phase' = "verify_returned"
                    /\ verify_result' = err
                    /\ UNCHANGED <<nodes, unprocessed_child_count, ready, pend, order,
                                   cs, cs_log, gens>>
               ELSE /\ phase' = "verify_gen"
                    /\ gens' = MakeGens(cc.count)
                    /\ GenCircuitStart("verifier")
                    /\ UNCHANGED verify_result
    /\ UNCHANGED <<graph, prove_inputs, tie_break, prove_log, prove_result>>
    /\ UNCHANGED <<rtvars, auxvars>>

\* verifier.verify(&proof.0, &pedersen_gens, &bulletproof_gens): accepts the
\* proof of a satisfying assignment made for the same transcript and the same
\* constraint system, given generators that fit.
VerifierAccepts(c, g, p) ==
    /\ p.gen_len = g.transcript
    /\ p.num_vars = c.num_vars
    /\ p.constraints = c.constraints
    /\ p.satisfied

\* verify after gen_circuit returned Ok
VerifyEnd ==
    /\ phase = "verify_gen"
    /\ ready = {}
    /\ phase' = "verify_returned"
    /\ verify_result' = IF ~GeneratorsFit(cs, gens.capacity) THEN "InvalidGeneratorsLength"
                        ELSE IF VerifierAccepts(cs, gens, proof) THEN "Ok"
                        ELSE "VerificationError"
    /\ UNCHANGED <<graph, prove_inputs, tie_break, prove_log, nodes, unprocessed_child_count, ready, pend,
                   order, cs, cs_log, gens, proof, prove_result>>
    /\ UNCHANGED <<rtvars, auxvars>>

NextZK ==
    \/ ProveBegin
    \/ GenVisit
    \/ ProveEnd
    \/ VerifyBegin
    \/ VerifyEnd

SpecZK == InitZK /\ [][NextZK]_vars

-----------------------------------------------------------------------------
(* The conversions between BigInt and Scalar: try_uint_to_scalar and       *)
(* scalar_to_uint. Sizes are scaled down with FIELD_MODULUS: a byte has    *)
(* ByteRadix values, a Limb LIMB_SIZE bytes, a Scalar SCALAR_SIZE bytes,   *)
(* and the modulus lies below the top bit of a Scalar as in the source.    *)

ByteRadix == 4       \* values of a u8 (256 in the source)
LIMB_SIZE == 2       \* std::mem::size_of::<Limb>() (8 in the source)
SCALAR_SIZE == 4     \* std::mem::size_of::<Scalar>() (32 in the source)
BigIntWords == 3     \* N of UInt<N>: the words of a BigInt

RECURSIVE Pow(_, _)
Pow(b, e) == IF e = 0 THEN 1 ELSE b * Pow(b, e - 1)

WordRadix == Pow(ByteRadix, LIMB_SIZE)

\* Every UInt<N>
BigInts == [1..BigIntWords -> 0..(WordRadix - 1)]

\* val.to_le_bytes()
to_le_bytes(val) == [k \in 1..LIMB_SIZE |-> (val \div Pow(ByteRadix, k - 1)) % ByteRadix]

RECURSIVE LeValue(_, _)
\* The number whose little-endian digits in the given radix are ds.
LeValue(ds, radix) ==
    IF ds = <<>> THEN 0 ELSE Head(ds) + radix * LeValue(Tail(ds), radix)

\* BigInt::from_words / UInt::from_le_slice: bytes grouped into words
from_le_slice(bytes) ==
    [i \in 1..(Len(bytes) \div LIMB_SIZE) |->
        LeValue(SubSeq(bytes, LIMB_SIZE * (i - 1) + 1, LIMB_SIZE * i), ByteRadix)]

\* The words of the number n
WordsOf(n) == [i \in 1..BigIntWords |-> (n \div Pow(WordRadix, i - 1)) % WordRadix]

\* Scalar::from_canonical_bytes: Some(bytes) when the top bit is clear and
\* the number is reduced modulo the group order, None otherwise.
from_canonical_bytes(bytes) ==
    IF bytes[SCALAR_SIZE] >= ByteRadix \div 2 THEN None
    ELSE IF LeValue(bytes, ByteRadix) >= FIELD_MODULUS THEN None
    ELSE Some(bytes)

OutOfRangeError == [ok |-> FALSE, bytes |-> <<>>, err |-> "OutOfRange"]

\* upper: the loop that returns out_of_range on a non-zero word
AcceptAnyUpper(upper) == TRUE

UpperIsZero(upper) == \A k \in DOMAIN upper : upper[k] = 0

try_uint_to_scalar(x) ==
    LET num_scalar_words == SCALAR_SIZE \div LIMB_SIZE
        lower == SubSeq(x, 1, num_scalar_words)
        upper == SubSeq(x, num_scalar_words + 1, Len(x))
        scalar_data == [j \in 1..SCALAR_SIZE |->
                          to_le_bytes(lower[((j - 1) \div LIMB_SIZE) + 1])[((j - 1) % LIMB_SIZE) + 1]]
        scalar == from_canonical_bytes(scalar_data)
    IN  IF ~UpperIsZero(upper) THEN OutOfRangeError
        ELSE IF scalar = None THEN OutOfRangeError
        ELSE [ok |-> TRUE, bytes |-> Unwrap(scalar), err |-> ""]

\* scalar_to_uint with the bytes of the Scalar put last
scalar_to_uint_padded_first(x) ==
    LET remainder == BigIntWords * LIMB_SIZE - SCALAR_SIZE
    IN  from_le_slice([k \in 1..remainder |-> 0] \o x)

scalar_to_uint(x) ==
    LET remainder == BigIntWords * LIMB_SIZE - SCALAR_SIZE
        uint_data == x \o [k \in 1..remainder |-> 0]
    IN  from_le_slice(uint_data)

InitConv ==
    /\ cv_x \in BigInts
    /\ cv_pc = "start"
    /\ cv_scalar = NoScalar
    /\ cv_back = <<>>
    /\ RTUnused
    /\ ZKUnused
    /\ TNUnused
    /\ PNUnused
    /\ NFUnused

\* Scalar::try_from(x)
TryFrom ==
    /\ cv_pc = "start"
    /\ cv_scalar' = try_uint_to_scalar(cv_x)
    /\ cv_pc' = IF cv_scalar'.ok THEN "converted" ELSE "failed"
    /\ UNCHANGED <<cv_x, cv_back>>
    /\ UNCHANGED <<rtvars, zkvars, tnvars, pnvars, nfvars>>

\* BigInt::zkp_from(scalar)
ZkpFrom ==
    /\ cv_pc = "converted"
    /\ cv_back' = scalar_to_uint(cv_scalar.bytes)
    /\ cv_pc' = "back"
    /\ UNCHANGED <<cv_x, cv_scalar>>
    /\ UNCHANGED <<rtvars, zkvars, tnvars, pnvars, nfvars>>

NextConv ==
    \/ TryFrom
    \/ ZkpFrom

SpecConv == InitConv /\ [][NextConv]_vars

-----------------------------------------------------------------------------
(* TypeName: Serialize, TypeNameVisitor::visit_str and Deserialize. A      *)
(* string is a sequence of one-character strings. A Version is            *)
(* major.minor.patch with an optional pre-release and optional build      *)
(* metadata, kept without their leading - and +.                          *)

MaxStrLen == 6      \* longest string handed to deserialize from outside

DigitChars == <<"0", "1", "2", "3", "4", "5", "6", "7", "8", "9">>

IsDigit(c) == \E k \in DOMAIN DigitChars : DigitChars[k] = c

DigitValue(c) == (CHOOSE k \in DOMAIN DigitChars : DigitChars[k] = c) - 1

RECURSIVE Decimal(_)
\* format!("{}", n) of an unsigned number
Decimal(n) ==
    IF n < 10 THEN <<DigitChars[n + 1]>>
    ELSE Decimal(n \div 10) \o <<DigitChars[(n % 10) + 1]>>

RECURSIVE ParseDecimal(_)
\* The number written by the digits t
ParseDecimal(t) ==
    IF t = <<>> THEN 0
    ELSE 10 * ParseDecimal(SubSeq(t, 1, Len(t) - 1)) + DigitValue(t[Len(t)])

RECURSIVE Split(_, _)
\* s.split(sep): the parts of s between the occurrences of sep
Split(s, sep) ==
    IF \A k \in DOMAIN s : s[k] # sep THEN <<s>>
    ELSE LET i == CHOOSE k \in DOMAIN s : s[k] = sep /\ \A j \in 1..(k - 1) : s[j] # sep
         IN  <<SubSeq(s, 1, i - 1)>> \o Split(SubSeq(s, i + 1, Len(s)), sep)

\* u64::MAX, digit by digit
U64MaxDigits ==
    <<"1", "8", "4", "4", "6", "7", "4", "4", "0", "7", "3", "7", "0", "9", "5", "5", "1", "6",
      "1", "5">>

\* The digits t write a number above u64::MAX.
ExceedsU64(t) ==
    \/ Len(t) > Len(U64MaxDigits)
    \/ /\ Len(t) = Len(U64MaxDigits)
       /\ \E k \in DOMAIN t :
            /\ DigitValue(t[k]) > DigitValue(U64MaxDigits[k])
            /\ \A j \in 1..(k - 1) : t[j] = U64MaxDigits[j]

\* A numeric identifier of a semantic version: digits without a leading
\* zero, of a value that fits a u64
IsNumericIdentifier(t) ==
    /\ t # <<>>
    /\ \A k \in DOMAIN t : IsDigit(t[k])
    /\ Len(t) > 1 => t[1] # "0"
    /\ ~ExceedsU64(t)

Letters ==
    {"a", "b", "c", "d", "e", "f", "g", "h", "i", "j", "k", "l", "m", "n", "o", "p", "q", "r",
     "s", "t", "u", "v", "w", "x", "y", "z", "A", "B", "C", "D", "E", "F", "G", "H", "I", "J",
     "K", "L", "M", "N", "O", "P", "Q", "R", "S", "T", "U", "V", "W", "X", "Y", "Z"}

\* A character of a pre-release or build identifier, or the dot between two
IsIdentChar(c) == IsDigit(c) \/ c \in Letters \/ c = "-" \/ c = "."

RECURSIVE CoreLen(_)
\* The length of the longest prefix of t made of digits and dots
CoreLen(t) ==
    IF t # <<>> /\ (IsDigit(t[1]) \/ t[1] = ".") THEN 1 + CoreLen(Tail(t)) ELSE 0

RECURSIVE IdentLen(_)
\* The length of the longest prefix of t made of identifier characters
IdentLen(t) == IF t # <<>> /\ IsIdentChar(t[1]) THEN 1 + IdentLen(Tail(t)) ELSE 0

\* A pre-release: dot-separated identifiers, none empty, the numeric ones
\* without a leading zero
IsPrerelease(t) ==
    \A k \in DOMAIN Split(t, ".") :
        LET id == Split(t, ".")[k] IN
        /\ id # <<>>
        /\ (\A d \in DOMAIN id : IsDigit(id[d])) => (Len(id) > 1 => id[1] # "0")

\* Build metadata: dot-separated identifiers, none empty
IsBuildMetadata(t) == \A k \in DOMAIN Split(t, ".") : Split(t, ".")[k] # <<>>

\* Version::parse: major.minor.patch, then a pre-release after a '-', then
\* build metadata after a '+', then the end of the text.
VersionParse(t) ==
    LET core == SubSeq(t, 1, CoreLen(t))
        rest == SubSeq(t, CoreLen(t) + 1, Len(t))
        parts == Split(core, ".")
        hasPre == rest # <<>> /\ rest[1] = "-"
        afterDash == IF hasPre THEN Tail(rest) ELSE rest
        pre == IF hasPre THEN SubSeq(afterDash, 1, IdentLen(afterDash)) ELSE <<>>
        rest2 == SubSeq(afterDash, Len(pre) + 1, Len(afterDash))
        hasBuild == rest2 # <<>> /\ rest2[1] = "+"
        afterPlus == IF hasBuild THEN Tail(rest2) ELSE rest2
        build == IF hasBuild THEN SubSeq(afterPlus, 1, IdentLen(afterPlus)) ELSE <<>>
        rest3 == SubSeq(afterPlus, Len(build) + 1, Len(afterPlus))
    IN  IF /\ Len(parts) = 3
           /\ \A k \in 1..3 : IsNumericIdentifier(parts[k])
           /\ hasPre => IsPrerelease(pre)
           /\ hasBuild => IsBuildMetadata(build)
           /\ rest3 = <<>>
        THEN [ok |-> TRUE,
              version |-> [major |-> ParseDecimal(parts[1]), minor |-> ParseDecimal(parts[2]),
                           patch |-> ParseDecimal(parts[3]), pre |-> pre, build |-> build]]
        ELSE [ok |-> FALSE, version |-> NoVersion]

\* impl Display for Version
VersionDisplay(v) ==
    Decimal(v.major) \o <<".">> \o Decimal(v.minor) \o <<".">> \o Decimal(v.patch)
        \o (IF v.pre = <<>> THEN <<>> ELSE <<"-">> \o v.pre)
        \o (IF v.build = <<>> THEN <<>> ELSE <<"+">> \o v.build)

\* impl Serialize for TypeName: format!("{},{}", self.name, self.version)
serialize(t) == t.name \o <<",">> \o VersionDisplay(t.version)

\* visit_str accepting every string of two parts or more
AtLeastTwoParts(s) == Len(Split(s, ",")) >= 2

\* TypeNameVisitor::visit_str: Ok when s.split(",").count() == 2
visit_str(s) == Len(Split(s, ",")) = 2

\* impl Deserialize for TypeName
deserialize(s) ==
    IF ~visit_str(s) THEN [NoResult EXCEPT !.err = "invalid_value"]
    ELSE LET splits == Split(s, ",")
             typename == splits[1]
             version == VersionParse(splits[2])
         IN  IF ~version.ok THEN [NoResult EXCEPT !.err = "Failed to parse version"]
             ELSE [ok |-> TRUE, name |-> typename, version |-> version.version, err |-> ""]

\* The names of the TypeNames serialized
TypeNameNames ==
    {<<"f", "o", "o", ":", ":", "B", "a", "r">>, <<>>, <<"a">>, <<"a", ",", "1", ".", "0", ".", "0">>,
     <<"P", "<", "A", ",", "B", ">">>, <<",">>}

VersionNumbers == {0, 1, 6, 10, 24, 42}

\* Pre-releases and build metadata of the versions serialized
Prereleases == {<<>>, <<"a">>, <<"0">>, <<"r", "c", "-", "1", ".", "2">>}

BuildMetadata == {<<>>, <<"b">>, <<"0", "1">>}

TypeNames ==
    {[name |-> n, version |-> [major |-> a, minor |-> b, patch |-> c, pre |-> p, build |-> m],
      some |-> TRUE] :
        n \in TypeNameNames, a \in VersionNumbers, b \in VersionNumbers, c \in VersionNumbers,
        p \in Prereleases, m \in BuildMetadata}

\* The characters of the strings that come from outside
Alphabet == {"a", ",", ".", "0", "1"}

\* Longer strings that come from outside: a name, a comma and a version
\* text with or without a pre-release and build metadata
VersionTexts ==
    {<<"1", ".", "0", ".", "0">>,
     <<"1", ".", "0", ".", "0", "-", "a">>,
     <<"1", ".", "0", ".", "0", "+", "b">>,
     <<"1", ".", "0", ".", "0", "-", "a", "+", "b">>,
     <<"1", ".", "0", ".", "0", "-", "a", ".", "1">>,
     <<"1", ".", "0", ".", "0", "-", "0", "1">>,
     <<"1", ".", "0", ".", "0", "+", "0", "1">>,
     <<"1", ".", "0", ".", "0", "-">>,
     <<"1", ".", "0", ".", "0", "+">>,
     <<"1", ".", "0", ".", "0", "-", "a", ".">>,
     <<"1", ".", "0", ".", "0", "+", "b", "+", "c">>,
     <<"1", ".", "0", ".", "0", "+", "b", "-", "a">>,
     <<"1", ".", "0", ".", "0", "a">>,
     <<"1", ".", "0", "-", "a">>,
     <<"1", ".", "0", ".", "0", "-", "a", "_">>,
     <<"1", "8", "4", "4", "6", "7", "4", "4", "0", "7", "3", "7", "0", "9", "5", "5", "1", "6",
       "1", "6", ".", "0", ".", "0">>}

LongerStrings == {<<"a", ",">> \o v : v \in VersionTexts}

Strings == UNION {[1..n -> Alphabet] : n \in 0..MaxStrLen} \cup LongerStrings

InitTN ==
    /\ \/ /\ tn_in \in TypeNames
          /\ tn_str = <<>>
          /\ tn_pc = "value"
       \/ /\ tn_in = NoTypeName
          /\ tn_str \in Strings
          /\ tn_pc = "string"
    /\ tn_out = NoResult
    /\ RTUnused
    /\ ZKUnused
    /\ CVUnused
    /\ PNUnused
    /\ NFUnused

\* serde_json::to_string(&typename)
SerializeTN ==
    /\ tn_pc = "value"
    /\ tn_str' = serialize(tn_in)
    /\ tn_pc' = "string"
    /\ UNCHANGED <<tn_in, tn_out>>
    /\ UNCHANGED <<rtvars, zkvars, cvvars, pnvars, nfvars>>

\* serde_json::from_str(&serialized)
DeserializeTN ==
    /\ tn_pc = "string"
    /\ tn_out' = deserialize(tn_str)
    /\ tn_pc' = "done"
    /\ UNCHANGED <<tn_in, tn_str>>
    /\ UNCHANGED <<rtvars, zkvars, cvvars, pnvars, nfvars>>

NextTN ==
    \/ SerializeTN
    \/ DeserializeTN

SpecTN == InitTN /\ [][NextTN]_vars

-----------------------------------------------------------------------------
(* ProgramNode: handles whose index slice lives in the thread-local bump   *)
(* arena INDEX_ARENA. The scope that begins and ends a graph build, the     *)
(* reset of the arena and the graph context behind with_zkp_ctx are not     *)
(* among the sources; they follow the specification's section 4.2. The     *)
(* lowering routines the operators delegate to follow its section 4.3.     *)
(* pn_read and pn_call describe the step just taken: every step that is    *)
(* not a read, or not a creator, sets them back.                           *)

MaxHandles == 2
MaxBuilds == 1
MaxElems == 2
MaxGraphNodes == 2
MaxOpNodes == 1     \* operation nodes a build appends besides its inputs

\* The variables of the calling program that can hold a handle.
HandleSlots == 1..MaxHandles

\* T::NUM_NATIVE_FIELD_ELEMENTS of the types tried; a type may have none.
ElemCounts == 0..MaxElems

InputKinds == {"public", "private", "constant"}

NoHandle == [off |-> 0, len |-> 0, epoch |-> -1]

NoRead == [some |-> FALSE, ids |-> <<>>, dangling |-> FALSE]

NoCreator == [creator |-> "none", n |-> 0]

\* Indices that start at zero whatever the graph holds
AddedIdsFromZero(g, n) == [k \in 1..n |-> k - 1]

\* ctx.add_public_input() and its siblings, n times over: the node indices
\* returned, in order, for a graph g.
AddedIds(g, n) == [k \in 1..n |-> Len(g) + k - 1]

\* The graph after n input nodes of one kind were appended.
AddInputs(g, kind, n) == g \o [k \in 1..n |-> kind]

\* allocator.alloc_slice_copy(ids): the arena after the copy.
alloc_slice_copy(arena, ids) == arena \o ids

\* ProgramNode::new(ids): the handle refers to the slice just allocated; it
\* is a pointer and a length, with no trace of the arena's lifetime
\* (transmuted to 'static). The epoch is kept to tell what the pointer
\* refers to.
new(arena, epoch, ids) == [off |-> Len(arena), len |-> Len(ids), epoch |-> epoch]

\* The slice a handle refers to is still the allocation it was made from.
Live(h) == h.epoch = pn_epoch

\* What reading h.ids can return. A live handle reads its allocation, and
\* an empty slice reads nothing wherever it points. A
\* handle of an arena that was reset since refers to memory that was given
\* back: it may read the old indices, those of a later allocation, or
\* anything else.
ReadOutcomes(h) ==
    IF Live(h) \/ h.len = 0
    THEN {[some |-> TRUE, ids |-> SubSeq(pn_arena, h.off + 1, h.off + h.len),
           dangling |-> FALSE]}
    ELSE {[some |-> TRUE, ids |-> i, dangling |-> TRUE] :
            i \in [1..h.len -> 0..(MaxGraphNodes - 1)]}

InitPN ==
    /\ pn_active = FALSE
    /\ pn_graph = <<>>
    /\ pn_arena = <<>>
    /\ pn_epoch = 0
    /\ pn_held = [s \in HandleSlots |-> NoHandle]
    /\ pn_read = NoRead
    /\ pn_call = NoCreator
    /\ RTUnused
    /\ ZKUnused
    /\ CVUnused
    /\ TNUnused
    /\ NFUnused

\* with_graph begins: a fresh graph becomes the current graph. Nested
\* acquisition is refused.
WithGraphEnter ==
    /\ ~pn_active
    /\ pn_epoch < MaxBuilds
    /\ pn_active' = TRUE
    /\ pn_graph' = <<>>
    /\ pn_read' = NoRead
    /\ pn_call' = NoCreator
    /\ UNCHANGED <<pn_arena, pn_epoch, pn_held>>
    /\ UNCHANGED <<rtvars, zkvars, cvvars, tnvars, nfvars>>

\* The input creators of CreateZkpProgramInput and the kind of node each
\* asks the graph context for.
InputCreators == {"public_input", "private_input", "constant_input"}

KindOf(creator) ==
    CASE creator = "public_input" -> "public"
      [] creator = "constant_input" -> "constant"
      [] OTHER -> "private"

\* The body the creators share: a loop that pushes the index of n new nodes
\* of one kind, then ProgramNode::new of the indices; the handle is bound to
\* variable s of the caller. The loop calls with_zkp_ctx once per element:
\* for a type of no elements the graph context is never asked for, and the
\* creator succeeds outside a build as well.
PushAndNew(creator, n, s) ==
    /\ n > 0 => pn_active
    /\ Len(pn_graph) + n <= MaxGraphNodes
    /\ LET ids == AddedIds(pn_graph, n) IN
         /\ pn_graph' = AddInputs(pn_graph, KindOf(creator), n)
         /\ pn_arena' = alloc_slice_copy(pn_arena, ids)
         /\ pn_held' = [pn_held EXCEPT ![s] = new(pn_arena, pn_epoch, ids)]
    /\ pn_call' = [creator |-> creator, n |-> n]
    /\ pn_read' = NoRead
    /\ UNCHANGED <<pn_active, pn_epoch>>
    /\ UNCHANGED <<rtvars, zkvars, cvvars, tnvars, nfvars>>

\* public_input / private_input / constant_input of ProgramNode<T>, for a
\* type T of n = T::NUM_NATIVE_FIELD_ELEMENTS field elements.
CreateInput(creator, n, s) ==
    /\ creator \in InputCreators
    /\ PushAndNew(creator, n, s)

\* linked_input(plaintext_modulus) of ProgramNode<T>: n stands for
\* T::num_native_field_elements(plaintext_modulus); the nodes are private
\* inputs.
CreateLinkedInput(n, s) == PushAndNew("linked_input", n, s)

\* Index slices handed to ProgramNode::new by a caller of its own.
DirectIds == {<<1>>, <<1, 0>>}

\* ProgramNode::new(ids) called directly: the slice is copied into the
\* thread-local arena and a handle to the copy is returned, with or without
\* a build under way; the graph is not touched.
NewDirect(ids, s) ==
    /\ Len(pn_arena) + Len(ids) <= MaxGraphNodes
    /\ pn_arena' = alloc_slice_copy(pn_arena, ids)
    /\ pn_held' = [pn_held EXCEPT ![s] = new(pn_arena, pn_epoch, ids)]
    /\ pn_call' = NoCreator
    /\ pn_read' = NoRead
    /\ UNCHANGED <<pn_active, pn_graph, pn_epoch>>
    /\ UNCHANGED <<rtvars, zkvars, cvvars, tnvars, nfvars>>

\* The operators of ProgramNode<T> that return a handle: +, *, /, %, - and
\* constrain_eq over two handles, unary - over one. Each delegates to the
\* lowering routine of T, which is not among the sources; after the
\* specification's section 4.3 it reads the index slices of its operands,
\* appends one node of the operation per element and returns a handle to
\* the new nodes.
BinaryOperators == {"add", "mul", "div", "rem", "sub", "constrain_eq"}

ComparisonConstraints ==
    {"constrain_le_bounded", "constrain_lt_bounded", "constrain_ge_bounded",
     "constrain_gt_bounded"}

\* The operation nodes of a graph: those that are not inputs.
OpNodeCount(g) == Len(SelectSeq(g, LAMBDA kind : kind \notin InputKinds))

\* What a routine reads that consumes the index slices of two handles: both
\* slices, one after the other; the read is dangling when either is.
ReadBoth(lhs, rhs) ==
    {[some |-> TRUE, ids |-> a.ids \o b.ids, dangling |-> a.dangling \/ b.dangling] :
        a \in ReadOutcomes(lhs), b \in ReadOutcomes(rhs)}

\* The lowering shared by the operators: the index slices of the operands
\* are read (with one of the outcomes in `reads`) and n nodes of one
\* operation are appended.
Lower(op, n, reads) ==
    /\ pn_active
    /\ Len(pn_graph) + n <= MaxGraphNodes
    /\ OpNodeCount(pn_graph) + n <= MaxOpNodes
    /\ pn_graph' = pn_graph \o [k \in 1..n |-> op]
    /\ pn_read' \in reads
    /\ pn_call' = NoCreator
    /\ UNCHANGED <<pn_active, pn_epoch>>
    /\ UNCHANGED <<rtvars, zkvars, cvvars, tnvars, nfvars>>

\* self op rhs for two handles, the result bound to variable u. Nothing in
\* the operator compares the two slices: when their lengths differ, the
\* routine of T goes by one of the two.
ApplyBinary(op, s, t, u) ==
    /\ op \in BinaryOperators
    /\ pn_held[s] # NoHandle /\ pn_held[t] # NoHandle
    /\ \E n \in {pn_held[s].len, pn_held[t].len} :
         /\ Lower(op, n, ReadBoth(pn_held[s], pn_held[t]))
         /\ LET ids == AddedIds(pn_graph, n) IN
              /\ pn_arena' = alloc_slice_copy(pn_arena, ids)
              /\ pn_held' = [pn_held EXCEPT ![u] = new(pn_arena, pn_epoch, ids)]

\* -self
ApplyNeg(s, u) ==
    /\ pn_held[s] # NoHandle
    /\ Lower("neg", pn_held[s].len, ReadOutcomes(pn_held[s]))
    /\ LET ids == AddedIds(pn_graph, pn_held[s].len) IN
         /\ pn_arena' = alloc_slice_copy(pn_arena, ids)
         /\ pn_held' = [pn_held EXCEPT ![u] = new(pn_arena, pn_epoch, ids)]

\* constrain_le_bounded and its siblings: the comparison of two handles is
\* lowered to k nodes of the current graph, as many as the lowering routine
\* needs for the bit width given; nothing is returned, no handle is made.
ConstrainCmp(cmp, s, t, k) ==
    /\ cmp \in ComparisonConstraints
    /\ pn_held[s] # NoHandle /\ pn_held[t] # NoHandle
    /\ Lower(cmp, k, ReadBoth(pn_held[s], pn_held[t]))
    /\ UNCHANGED <<pn_arena, pn_held>>

\* zkp_node(lit): Field::from(lit).into_program_node(), a handle to one new
\* node that holds the literal.
ZkpNode(s) ==
    /\ pn_active
    /\ Len(pn_graph) + 1 <= MaxGraphNodes
    /\ OpNodeCount(pn_graph) + 1 <= MaxOpNodes
    /\ LET ids == AddedIds(pn_graph, 1) IN
         /\ pn_graph' = Append(pn_graph, "literal")
         /\ pn_arena' = alloc_slice_copy(pn_arena, ids)
         /\ pn_held' = [pn_held EXCEPT ![s] = new(pn_arena, pn_epoch, ids)]
    /\ pn_call' = NoCreator
    /\ pn_read' = NoRead
    /\ UNCHANGED <<pn_active, pn_epoch>>
    /\ UNCHANGED <<rtvars, zkvars, cvvars, tnvars, nfvars>>

\* #[derive(Clone, Copy)]: a handle is copied into another variable.
CopyHandle(s, t) ==
    /\ s # t
    /\ pn_held[s] # NoHandle
    /\ pn_held[t] # pn_held[s]
    /\ pn_held' = [pn_held EXCEPT ![t] = pn_held[s]]
    /\ pn_read' = NoRead
    /\ pn_call' = NoCreator
    /\ UNCHANGED <<pn_active, pn_graph, pn_arena, pn_epoch>>
    /\ UNCHANGED <<rtvars, zkvars, cvvars, tnvars, nfvars>>

\* A variable holding a handle goes out of scope.
DropHandle(s) ==
    /\ pn_held[s] # NoHandle
    /\ pn_held' = [pn_held EXCEPT ![s] = NoHandle]
    /\ pn_read' = NoRead
    /\ pn_call' = NoCreator
    /\ UNCHANGED <<pn_active, pn_graph, pn_arena, pn_epoch>>
    /\ UNCHANGED <<rtvars, zkvars, cvvars, tnvars, nfvars>>

\* The caller reads the public field `ids` of a handle it holds.
ReadIds(s) ==
    /\ pn_held[s] # NoHandle
    /\ pn_read' \in ReadOutcomes(pn_held[s])
    /\ pn_call' = NoCreator
    /\ UNCHANGED <<pn_active, pn_graph, pn_arena, pn_epoch, pn_held>>
    /\ UNCHANGED <<rtvars, zkvars, cvvars, tnvars, nfvars>>

\* with_graph ends, normally or not: the graph is extracted and the arena is
\* reset. The handles are plain 'static values: nothing takes them away
\* from the variables still holding them.
WithGraphExit ==
    /\ pn_active
    /\ pn_active' = FALSE
    /\ pn_arena' = <<>>
    /\ pn_epoch' = pn_epoch + 1
    /\ pn_read' = NoRead
    /\ pn_call' = NoCreator
    /\ UNCHANGED <<pn_graph, pn_held>>
    /\ UNCHANGED <<rtvars, zkvars, cvvars, tnvars, nfvars>>

NextPN ==
    \/ WithGraphEnter
    \/ \E creator \in InputCreators, n \in ElemCounts, s \in HandleSlots :
          CreateInput(creator, n, s)
    \/ \E n \in ElemCounts, s \in HandleSlots : CreateLinkedInput(n, s)
    \/ \E ids \in DirectIds, s \in HandleSlots : NewDirect(ids, s)
    \/ \E op \in BinaryOperators, s \in HandleSlots, t \in HandleSlots, u \in HandleSlots :
          ApplyBinary(op, s, t, u)
    \/ \E s \in HandleSlots, u \in HandleSlots : ApplyNeg(s, u)
    \/ \E cmp \in ComparisonConstraints, s \in HandleSlots, t \in HandleSlots,
          k \in 1..MaxOpNodes : ConstrainCmp(cmp, s, t, k)
    \/ \E s \in HandleSlots : ZkpNode(s)
    \/ \E s \in HandleSlots, t \in HandleSlots : CopyHandle(s, t)
    \/ \E s \in HandleSlots : DropHandle(s)
    \/ \E s \in HandleSlots : ReadIds(s)
    \/ WithGraphExit

SpecPN == InitPN /\ [][NextPN]_vars

-----------------------------------------------------------------------------
(* enum Node on its own: Add, Sub, Mul and Neg applied to operands drawn    *)
(* from a small set of Scalars and linear combinations.                     *)

MaxWire == 1

\* The Scalars tried as operands.
FoldScalars == {0, 1, 2, FIELD_MODULUS - 1}

\* The linear combinations tried as operands: a committed wire, a multiplier
\* output, a wire scaled by 2, a wire plus a constant.
FoldLCs ==
    UNION {{LcOfVar(Var("MultiplierLeft", i)), LcOfVar(Var("MultiplierOutput", i)),
            <<Term(Var("MultiplierLeft", i), 2)>>,
            LcAdd(LcOfVar(Var("MultiplierLeft", i)), LcOfScalar(1))} : i \in 0..MaxWire}

FoldOperands == {NodeScalar(x) : x \in FoldScalars} \cup {NodeLC(l) : l \in FoldLCs}

\* What the caller of an operator sees: the Node returned, or the panic.
FoldResult(n) ==
    IF n = IllegalOperation THEN [panic |-> "Illegal operation.", node |-> IllegalOperation]
    ELSE [panic |-> "", node |-> n]

InitFold ==
    /\ nf_x \in FoldOperands
    /\ nf_y \in FoldOperands
    /\ nf_pc = "start"
    /\ nf_out = <<>>
    /\ RTUnused
    /\ ZKUnused
    /\ CVUnused
    /\ TNUnused
    /\ PNUnused

\* impl Add<Node> for Node
FoldAdd ==
    /\ nf_pc = "start"
    /\ nf_pc' = "add"
    /\ nf_out' = FoldResult(NodeAdd(nf_x, nf_y))
    /\ UNCHANGED <<nf_x, nf_y>>
    /\ UNCHANGED <<rtvars, zkvars, cvvars, tnvars, pnvars>>

\* impl Mul<Node> for Node
FoldMul ==
    /\ nf_pc = "start"
    /\ nf_pc' = "mul"
    /\ nf_out' = FoldResult(NodeMul(nf_x, nf_y))
    /\ UNCHANGED <<nf_x, nf_y>>
    /\ UNCHANGED <<rtvars, zkvars, cvvars, tnvars, pnvars>>

\* impl Sub<Node> for Node
FoldSub ==
    /\ nf_pc = "start"
    /\ nf_pc' = "sub"
    /\ nf_out' = FoldResult(NodeSub(nf_x, nf_y))
    /\ UNCHANGED <<nf_x, nf_y>>
    /\ UNCHANGED <<rtvars, zkvars, cvvars, tnvars, pnvars>>

\* impl Neg for Node, on the left operand
FoldNeg ==
    /\ nf_pc = "start"
    /\ nf_pc' = "neg"
    /\ nf_out' = FoldResult(NodeNeg(nf_x))
    /\ UNCHANGED <<nf_x, nf_y>>
    /\ UNCHANGED <<rtvars, zkvars, cvvars, tnvars, pnvars>>

NextFold ==
    \/ FoldAdd
    \/ FoldMul
    \/ FoldSub
    \/ FoldNeg

SpecFold == InitFold /\ [][NextFold]_vars

-----------------------------------------------------------------------------
(* Properties of run_program_unchecked and parallel_traverse *)

InputIds == {NodeOp(i).a : i \in {j \in node_indices : NodeOp(j).op = "InputCiphertext"}}

\* The preconditions run_program_unchecked leaves to its caller: only
\* implemented operations, input ids 0..k-1 that all have an input, and
\* relinearization keys exactly when a Relinearize node is present.
ValidIR ==
    /\ main_pc # "unused"
    /\ \A i \in node_indices : NodeOp(i).op \notin Unimplemented
    /\ InputIds = 0..(Cardinality(InputIds) - 1)
    /\ Cardinality(InputIds) <= Len(inputs)
    /\ relin_keys <=> (\E i \in node_indices : NodeOp(i).op = "Relinearize")

\* No worker and no caller can take a step any more.
Quiescent == ~ENABLED NextRT

\* Every worker left its loop through `return` and the scope was joined.
TraverseReturned == main_pc # "traverse" /\ \A w \in Workers : pc[w] = "exited"

OutputNodes == {i \in node_indices : NodeOp(i).op = "OutputCiphertext"}

\* The k-th OutputCiphertext node in node-index order.
KthOutput(k) ==
    CHOOSE i \in OutputNodes : Cardinality({j \in OutputNodes : j < i}) = k - 1

RECURSIVE NodeValue(_)
\* The ciphertext a node denotes: inputs[i] for InputCiphertext(i), the
\* evaluator's result on the operands' values otherwise.
NodeValue(i) ==
    LET o == NodeOp(i) IN
    CASE o.op = "InputCiphertext" -> inputs[o.a + 1]
      [] o.op = "Add" -> EvalAdd(NodeValue(o.a), NodeValue(o.b))
      [] o.op = "Multiply" -> EvalMultiply(NodeValue(o.a), NodeValue(o.b))
      [] o.op = "Relinearize" -> EvalRelinearize(NodeValue(o.a))
      [] o.op = "OutputCiphertext" -> NodeValue(o.a)
      [] OTHER -> Torn

\* C2: parallel_traverse on a valid program terminates: whenever nothing can
\* run any more, every worker has left its loop and the call has returned.
C2_Terminates == ValidIR => (TraverseReturned \/ ENABLED NextRT)

\* C3: the callback runs exactly once on every node: never twice, and when
\* the traversal has come to rest no node was skipped.
C3_ExactlyOnce ==
    ValidIR =>
        /\ \A n \in node_indices : visits[n] <= 1
        /\ Quiescent => \A n \in node_indices : visits[n] = 1

\* C4: when a worker is about to run the callback on node v, the visit of
\* every operand u of v has completed and u's slot holds a ciphertext, and no
\* worker dies of the "No ciphertext found" panic.
C4_OperandsReady ==
    ValidIR =>
        \A w \in Workers :
            /\ panic_msg[w] # "NoCiphertext"
            /\ pc[w] = "callback" =>
                 \A k \in DOMAIN Operands(NodeOp(node_id[w])) :
                     LET u == Operands(NodeOp(node_id[w]))[k]
                     IN  u \in completed /\ data[u] # None

\* C5: on a valid program run_program_unchecked returns a vector with one
\* entry per OutputCiphertext node, the k-th entry being the ciphertext of the
\* k-th OutputCiphertext node in node-index order.
C5_OutputShape ==
    (ValidIR /\ Quiescent) =>
        /\ main_pc = "returned"
        /\ Len(output) = Cardinality(OutputNodes)
        /\ \A k \in 1..Len(output) :
               /\ data[KthOutput(k)] # None
               /\ output[k] = Unwrap(data[KthOutput(k)]).ct

\* C6: on a valid program each returned entry is the value of the source of
\* the corresponding OutputCiphertext node (inputs[i] for InputCiphertext(i),
\* the evaluator's result on the operand values for the other nodes).
C6_OutputValues ==
    (ValidIR /\ Quiescent) =>
        /\ main_pc = "returned"
        /\ Len(output) = Cardinality(OutputNodes)
        /\ \A k \in 1..Len(output) : output[k] = NodeValue(NodeOp(KthOutput(k)).a)

-----------------------------------------------------------------------------
(* Properties of the Bulletproofs backend *)

InputIndices(g) == {ZOp(g, i).x : i \in {j \in zk_node_indices(g) : ZOp(g, j).op = "Input"}}

\* The sources of the edges of role `role` into n, in insertion order
Sources(g, n, role) ==
    LET es == SelectSeq(g.edges, LAMBDA e : e.dst = n /\ e.role = role)
    IN  [k \in DOMAIN es |-> es[k].src]

RECURSIVE Symbolic(_, _)
\* Node n is an Input or HiddenInput node or has one among its ancestors.
Symbolic(g, n) ==
    \/ ZOp(g, n).op \in {"Input", "HiddenInput"}
    \/ \E k \in DOMAIN g.edges : g.edges[k].dst = n /\ Symbolic(g, g.edges[k].src)

RECURSIVE Denotes(_, _, _)
\* The field element node n of g denotes under the inputs ins.
Denotes(g, ins, n) ==
    LET node == ZOp(g, n)
        l == Sources(g, n, "Left")[1]
        r == Sources(g, n, "Right")[1]
    IN  CASE node.op = "Input" -> ins[node.x + 1]
          [] node.op \in {"HiddenInput", "Constant"} -> node.x
          [] node.op = "Add" -> FAdd(Denotes(g, ins, l), Denotes(g, ins, r))
          [] node.op = "Sub" -> FSub(Denotes(g, ins, l), Denotes(g, ins, r))
          [] node.op = "Mul" -> FMul(Denotes(g, ins, l), Denotes(g, ins, r))
          [] node.op = "Neg" -> FNeg(Denotes(g, ins, l))
          [] OTHER -> 0

ConstraintNodes(g) == {n \in zk_node_indices(g) : ZOp(g, n).op = "Constraint"}

\* The inputs satisfy every Constraint node of g.
ConstraintsHold(g, ins) ==
    \A n \in ConstraintNodes(g) :
        \A k \in DOMAIN Sources(g, n, "Unordered") :
            Denotes(g, ins, Sources(g, n, "Unordered")[k]) = ZOp(g, n).x

\* A circuit prove can be asked to prove: every payload is a field element,
\* hidden inputs are assigned, the Input indices are 0..k-1, and every
\* constrained operand depends on an input (the edges are well formed by
\* construction).
ValidCircuit(g) ==
    /\ \A n \in zk_node_indices(g) :
           /\ ZOp(g, n).op \in {"Constant", "Constraint", "HiddenInput"} => InRange(ZOp(g, n).x)
    /\ InputIndices(g) = 0..(expected_input_count(g) - 1)
    /\ \A n \in ConstraintNodes(g) :
           \A k \in DOMAIN Sources(g, n, "Unordered") :
               Symbolic(g, Sources(g, n, "Unordered")[k])

ValidInputs(g, ins) ==
    /\ Len(ins) = expected_input_count(g)
    /\ \A k \in DOMAIN ins : InRange(ins[k])

\* gen_circuit has visited every node and is about to return Ok.
GenDone == phase \in {"prove_gen", "verify_gen"} /\ ready = {}

ConstrainCalls == Len(SelectSeq(cs_log, LAMBDA e : e.call = "constrain"))

\* C1: on a valid circuit and valid inputs of the expected length prove
\* succeeds, and verify of the proof returns Ok when the inputs satisfy every
\* Constraint node and an error when they violate one.
C1_ProveThenVerify ==
    (phase # "unused" /\ ValidCircuit(graph) /\ ValidInputs(graph, prove_inputs)) =>
        /\ phase = "prove_returned" => prove_result = "Ok"
        /\ (phase = "verify_returned" /\ IsBulletproofs(proof) /\ prove_result = "Ok") =>
               (verify_result = "Ok" <=> ConstraintsHold(graph, prove_inputs))

\* C7 as stated: after gen_circuit completes successfully every slot of the
\* operand table is empty.
C7_AllSlotsEmpty ==
    GenDone => \A i \in zk_node_indices(graph) : nodes[i] = None

\* C7 as amended: after gen_circuit completes successfully a slot is empty
\* exactly when its node is a Constraint node or has at least one consumer; a
\* value node without consumers still holds its operand.
C7_ConsumedSlotsEmpty ==
    GenDone =>
        \A i \in zk_node_indices(graph) :
            nodes[i] = None <=>
                (ZOp(graph, i).op = "Constraint"
                 \/ \E k \in DOMAIN graph.edges : graph.edges[k].src = i)

C7_Witness ==
    /\ GenDone
    /\ \E i \in zk_node_indices(graph) :
           /\ \E k \in DOMAIN graph.edges : graph.edges[k].src = i
           /\ nodes[i] = None
    /\ \E j \in zk_node_indices(graph) : nodes[j] # None

\* C8 as stated: constraint_count equals the number of constrain calls
\* gen_circuit makes on the graph.
C8_CountIsConstrainCalls ==
    GenDone => constraint_count(graph).count = ConstrainCalls

\* Mul nodes neither of whose operands is a Constant node
CountedMuls(g) ==
    {n \in zk_node_indices(g) :
        /\ ZOp(g, n).op = "Mul"
        /\ \A k \in DOMAIN g.edges :
               g.edges[k].dst = n => ZOp(g, g.edges[k].src).op # "Constant"}

\* Every Constraint node has exactly one operand and it is a linear combination.
SingleSymbolicConstraints(g) ==
    \A n \in ConstraintNodes(g) :
        /\ Len(Sources(g, n, "Unordered")) = 1
        /\ Symbolic(g, Sources(g, n, "Unordered")[1])

\* C8 as amended: when every Constraint node has exactly one operand and it
\* is a linear combination, constraint_count equals the number of constrain
\* calls plus the ceiling of half the number of Input nodes plus the number of
\* Mul nodes without a Constant operand.
C8_CountMinusInputsAndMuls ==
    (GenDone /\ SingleSymbolicConstraints(graph)) =>
        constraint_count(graph).count =
            ConstrainCalls + ((expected_input_count(graph) + 1) \div 2)
            + Cardinality(CountedMuls(graph))

C8_Witness ==
    /\ GenDone
    /\ SingleSymbolicConstraints(graph)
    /\ ConstrainCalls >= 1
    /\ Cardinality(CountedMuls(graph)) >= 1
    /\ constraint_count(graph).count > ConstrainCalls

\* C9: when the number of inputs differs from the number of Input nodes,
\* prove returns InputsMismatch, having made no call on a constraint system
\* and produced no proof.
C9_InputsMismatch ==
    (phase # "unused" /\ expected_input_count(graph) # Len(prove_inputs)) =>
        /\ phase # "prove_gen"
        /\ prove_result \in {"none", "InputsMismatch"}
        /\ phase = "prove_returned" =>
               /\ prove_result = "InputsMismatch"
               /\ cs = NoCS /\ cs_log = <<>> /\ gens = NoGens
               /\ proof = NoProof

C9_Witness ==
    /\ phase = "prove_returned"
    /\ prove_result = "InputsMismatch"
    /\ expected_input_count(graph) < Len(prove_inputs)

\* C10: verify on a proof whose tag is not Bulletproofs returns
\* IncorrectProofType at once: no transcript or generators are built and
\* gen_circuit does not run.
C10_IncorrectProofType ==
    [][(phase \in {"idle", "prove_returned"}
        /\ phase' \in {"verify_gen", "verify_returned"}
        /\ proof'.tag # "Bulletproofs")
       => (/\ phase' = "verify_returned"
           /\ verify_result' = "IncorrectProofType"
           /\ UNCHANGED <<nodes, unprocessed_child_count, ready, pend, order, cs,
                          cs_log, gens>>)]_vars

C10_Witness ==
    /\ phase = "verify_returned"
    /\ verify_result = "IncorrectProofType"
    /\ proof.tag = "Custom"
    /\ prove_result = "Ok"

\* C15: the forward traversal that drives gen_circuit visits no node twice
\* and every predecessor of a node before the node, and once gen_circuit is
\* about to return Ok it has visited every node.
C15_ForwardOrder ==
    phase \in {"prove_gen", "verify_gen", "prove_returned", "verify_returned"} =>
        /\ \A j, k \in DOMAIN order : j # k => order[j] # order[k]
        /\ \A k \in DOMAIN order :
               \A e \in DOMAIN graph.edges :
                   graph.edges[e].dst = order[k] =>
                       \E j \in 1..(k - 1) : order[j] = graph.edges[e].src
        /\ GenDone => {order[k] : k \in DOMAIN order} = zk_node_indices(graph)

C15_Witness ==
    /\ GenDone
    /\ Len(order) > MaxZNodes
    /\ graph.edges # <<>>
    /\ \E k \in 1..(Len(order) - 1) : order[k] > order[k + 1]

\* q is an initial segment of r
IsPrefix(q, r) == Len(q) <= Len(r) /\ SubSeq(r, 1, Len(q)) = q

\* C16: on one graph verify derives the transcript length prove derived from
\* constraint_count, and gen_circuit makes under verify, without input
\* values, the calls on the constraint system it made under prove, whatever
\* the input values were: the same calls in the same order on the same wires.
C16_SameOperations ==
    (phase \in {"verify_gen", "verify_returned"} /\ IsBulletproofs(proof)
       /\ prove_result = "Ok") =>
        /\ proof.gen_len = gens.transcript
        /\ IsPrefix(cs_log, prove_log)
        /\ (GenDone \/ verify_result \in {"Ok", "VerificationError", "InvalidGeneratorsLength"})
               => cs_log = prove_log

C16_Witness ==
    /\ phase = "verify_returned"
    /\ verify_result = "VerificationError"
    /\ cs_log = prove_log
    /\ \A c \in {"allocate", "multiply", "constrain"} :
           \E k \in DOMAIN cs_log : cs_log[k].call = c

-----------------------------------------------------------------------------
(* Properties of the conversions between BigInt and Scalar *)

\* The number a BigInt holds
BigIntValue(x) == LeValue(x, WordRadix)

\* C11: Scalar::try_from(x) succeeds exactly when x < FIELD_MODULUS, and
\* fails with OutOfRange for every x >= FIELD_MODULUS.
C11_InRangeExactly ==
    cv_pc \in {"converted", "failed", "back"} =>
        /\ cv_scalar.ok <=> BigIntValue(cv_x) < FIELD_MODULUS
        /\ ~cv_scalar.ok => (cv_pc = "failed" /\ cv_scalar.err = "OutOfRange")

C11_Witness ==
    /\ cv_pc = "failed"
    /\ cv_x = WordsOf(FIELD_MODULUS)
    /\ cv_scalar.err = "OutOfRange"

\* C12: for every x < FIELD_MODULUS, the BigInt made of Scalar::try_from(x)
\* is x again, and its words above the size of a Scalar are zero.
C12_RoundTrip ==
    /\ (cv_pc = "back" /\ BigIntValue(cv_x) < FIELD_MODULUS) =>
           /\ cv_back = cv_x
           /\ \A k \in (SCALAR_SIZE \div LIMB_SIZE + 1)..BigIntWords : cv_back[k] = 0
    /\ (cv_pc = "failed") => BigIntValue(cv_x) >= FIELD_MODULUS

C12_Witness ==
    /\ cv_pc = "back"
    /\ cv_x = WordsOf(FIELD_MODULUS - 1)
    /\ cv_back = cv_x

-----------------------------------------------------------------------------
(* Properties of TypeName *)

\* C13: deserializing the serialized string of a TypeName gives back a
\* TypeName with the same name and the same version.
C13_RoundTrip ==
    (tn_pc = "done" /\ tn_in.some) =>
        /\ tn_out.ok
        /\ tn_out.name = tn_in.name
        /\ tn_out.version = tn_in.version

Commas(s) == Cardinality({k \in DOMAIN s : s[k] = ","})

\* The part of s after its first comma
AfterComma(s) ==
    LET i == CHOOSE k \in DOMAIN s : s[k] = "," /\ \A j \in 1..(k - 1) : s[j] # ","
    IN  SubSeq(s, i + 1, Len(s))

\* C14: deserialize fails with a parse error and no TypeName on a string
\* that does not hold exactly one comma; on a string with exactly one comma
\* it fails only when the part after the comma is no semantic version.
C14_OneComma ==
    tn_pc = "done" =>
        /\ Commas(tn_str) # 1 =>
               (~tn_out.ok /\ tn_out.err = "invalid_value" /\ tn_out.name = <<>>
                /\ tn_out.version = NoVersion)
        /\ Commas(tn_str) = 1 =>
               /\ tn_out.ok <=> VersionParse(AfterComma(tn_str)).ok
               /\ ~tn_out.ok => tn_out.err = "Failed to parse version"

C14_Witness ==
    /\ tn_pc = "done"
    /\ Commas(tn_str) = 2
    /\ VersionParse(Split(tn_str, ",")[2]).ok
    /\ ~tn_out.ok

-----------------------------------------------------------------------------
(* The runtime: reserved operations *)

\* Worker w takes the callback step on a node carrying a reserved operation.
VisitsReserved(w) ==
    /\ pc[w] = "callback"
    /\ NodeOp(node_id[w]).op \in Unimplemented
    /\ pc'[w] # "callback"

\* C17: a worker that visits a node carrying ShiftLeft, ShiftRight, SwapRows,
\* Negate, Sub or Literal panics in that very step with the "unimplemented"
\* panic: it prepares no store (no evaluator result exists to be stored) and
\* no slot of the data array changes in that step.
C17_ReservedPanics ==
    [][\A w \in Workers :
          VisitsReserved(w) =>
            /\ pc'[w] = "panicked"
            /\ panic_msg'[w] = "Unimplemented"
            /\ pending'[w] = pending[w]
            /\ data' = data]_vars

\* A worker has panicked on a reserved operation.
C17_Witness ==
    \E w \in Workers :
        /\ pc[w] = "panicked"
        /\ panic_msg[w] = "Unimplemented"
        /\ NodeOp(node_id[w]).op \in Unimplemented
        /\ visits[node_id[w]] = 1
        /\ pending[w] = NoStore

-----------------------------------------------------------------------------
(* The runtime: the remaining-count *)

\* C19: each worker decrements the remaining-count once before each node it
\* takes from the ready queue, so the remaining-count is node_count minus the
\* number of decrements claimed: it equals node_count minus the nodes taken
\* whenever no worker stands between its decrement and its receive, it is
\* one less per worker standing there, and a worker has exited only after
\* the count reached zero.
C19_RemainingCount ==
    /\ items_remaining
         = node_count - taken - Cardinality({w \in Workers : pc[w] = "recv"})
    /\ \A w \in Workers : pc[w] = "exited" => items_remaining = 0

-----------------------------------------------------------------------------
(* The runtime: input nodes *)

\* C20: once the visit of a node n carrying InputCiphertext(i) has stored, the
\* slot of node n itself holds a borrow of inputs[i], whatever n and i are.
C20_InputSlotIsOwn ==
    \A n \in completed :
        NodeOp(n).op = "InputCiphertext" =>
            data[n] = Some(Borrowed("inputs", NodeOp(n).a, inputs[NodeOp(n).a + 1]))

-----------------------------------------------------------------------------
(* ProgramNode: the lifetime of handles *)

\* C18: no read of a handle's index slice happens after the arena the slice
\* was allocated in has been reset: every read made through a handle, or
\* through a copy of it, finds the allocation the handle was created with.
C18_NoReadAfterReset == ~pn_read.dangling

-----------------------------------------------------------------------------
(* The runtime: who writes a slot *)

\* Worker w takes its store step.
Stores(w) == pc[w] = "store" /\ pc'[w] = "notify"

\* C21: every store of a traversal goes into the slot of the node being
\* visited, and that slot has not been written before: no slot is written
\* twice, by whichever visits and workers.
C21_SlotWrittenOnceByOwnNode ==
    [][\A w \in Workers :
          Stores(w) =>
            /\ pending[w].slot = node_id[w]
            /\ data[pending[w].slot] = None]_vars

-----------------------------------------------------------------------------
(* The runtime: Relinearize *)

\* Worker w takes the callback step on a Relinearize node.
VisitsRelinearize(w) ==
    /\ pc[w] = "callback"
    /\ NodeOp(node_id[w]).op = "Relinearize"
    /\ pc'[w] # "callback"

\* C22: the visit of a Relinearize node without relinearization keys panics
\* with the fatal error, prepares no store and changes no slot; on a valid
\* program with keys the visit goes on to store, into the slot of the node,
\* the evaluator's relinearize result of the value of its operand.
C22_Relinearize ==
    [][\A w \in Workers :
          VisitsRelinearize(w) =>
            IF ~relin_keys
            THEN /\ pc'[w] = "panicked"
                 /\ panic_msg'[w] = "NoRelinKeys"
                 /\ pending'[w] = pending[w]
                 /\ data' = data
            ELSE ValidIR =>
                 /\ pc'[w] = "store"
                 /\ pending'[w] =
                      [slot |-> node_id[w],
                       val |-> Owned(EvalRelinearize(NodeValue(NodeOp(node_id[w]).a)))]]_vars

-----------------------------------------------------------------------------
(* gen_circuit: what one visit does *)

\* gen_circuit is about to visit a node, and which node.
Visiting == phase \in {"prove_gen", "verify_gen"} /\ ready # {}
CurrentNode == NextReady(tie_break, ready)

\* The step that visits CurrentNode.
VisitStep == Visiting /\ order' = Append(order, CurrentNode)

\* The node about to be visited carries `op`.
VisitingOp(op) == Visiting /\ ZOp(graph, CurrentNode).op = op

\* The entries a step appended to the log of calls on the constraint system.
NewCalls == SubSeq(cs_log', Len(cs_log) + 1, Len(cs_log'))

\* The Left and Right operands of the node about to be visited are in their slots.
BinaryOperandsPresent ==
    LET q == get_binary_operands(graph, CurrentNode) IN
    q.ok /\ nodes[q.left] # None /\ nodes[q.right] # None

LeftOperand == Unwrap(nodes[get_binary_operands(graph, CurrentNode).left])
RightOperand == Unwrap(nodes[get_binary_operands(graph, CurrentNode).right])

\* C23: the visit of a Mul node whose operands are both linear combinations
\* makes exactly one call on the constraint system, a multiply of the two
\* operands, and stores the output wire of that gate; with a Scalar among the
\* operands it makes no call, leaves the constraint system as it is and
\* stores the linear combination scaled by the Scalar, or the Scalar product
\* of two Scalars.
C23_MulGateOrFold ==
    [][(VisitStep /\ VisitingOp("Mul") /\ BinaryOperandsPresent) =>
         LET l == LeftOperand
             r == RightOperand
             stored == nodes'[CurrentNode]
         IN  IF IsLC(l) /\ IsLC(r)
             THEN /\ Len(NewCalls) = 1
                  /\ NewCalls[1].call = "multiply"
                  /\ NewCalls[1].x = l.lc /\ NewCalls[1].y = r.lc
                  /\ cs'.num_vars = cs.num_vars + 1
                  /\ stored = Some(NodeLC(LcOfVar(Var("MultiplierOutput", cs.num_vars))))
             ELSE /\ NewCalls = <<>>
                  /\ cs' = cs
                  /\ stored =
                       Some(IF IsLC(l) THEN NodeLC(LcMulScalar(l.lc, r.s))
                            ELSE IF IsLC(r) THEN NodeLC(LcMulScalar(r.lc, l.s))
                            ELSE NodeScalar((l.s * r.s) % FIELD_MODULUS))]_vars

\* A Mul node over two linear combinations has been visited and holds the
\* output wire of the one gate made so far.
C23_Witness ==
    /\ phase = "prove_gen"
    /\ \E n \in zk_node_indices(graph) :
          /\ ZOp(graph, n).op = "Mul"
          /\ \E k \in DOMAIN order : order[k] = n
          /\ nodes[n] = Some(NodeLC(LcOfVar(Var("MultiplierOutput", cs.num_vars - 1))))
          /\ Len(SelectSeq(cs_log, LAMBDA e : e.call = "multiply")) = 1

\* gen_circuit, and prove or verify with it, returns err in this step.
GenFailsWith(err) ==
    IF phase = "prove_gen"
    THEN phase' = "prove_returned" /\ prove_result' = err
    ELSE phase' = "verify_returned" /\ verify_result' = err

\* The visit under way succeeded: the traversal goes on.
VisitSucceeds == phase' = phase

\* The Unordered operands of the node about to be visited, in the order the
\* visit walks them, all of them in their slots.
UnorderedOperands == get_unordered_operands(graph, CurrentNode)
UnorderedOperandsPresent == \A k \in DOMAIN UnorderedOperands : nodes[UnorderedOperands[k]] # None

\* Some Scalar operand of the Constraint node differs from x.
ScalarMismatch(x) ==
    \E k \in DOMAIN UnorderedOperands :
        LET o == Unwrap(nodes[UnorderedOperands[k]]) IN ~IsLC(o) /\ o.s # x

RECURSIVE ConstrainedUntilMismatch(_, _)
\* l - x for each operand that is a linear combination l, in order, up to the
\* first Scalar operand that differs from x.
ConstrainedUntilMismatch(operands, x) ==
    IF operands = <<>> THEN <<>>
    ELSE LET o == Unwrap(nodes[Head(operands)]) IN
         IF IsLC(o)
         THEN <<o.lc \o LcNeg(<<Term(One, x)>>)>> \o ConstrainedUntilMismatch(Tail(operands), x)
         ELSE IF o.s # x THEN <<>>
         ELSE ConstrainedUntilMismatch(Tail(operands), x)

\* The number of operands of the Constraint node that are linear combinations.
SymbolicOperandCount ==
    Cardinality({k \in DOMAIN UnorderedOperands : IsLC(Unwrap(nodes[UnorderedOperands[k]]))})

\* C24: the visit of a Constraint(x) node makes only constrain calls, one
\* constrain(l - x) per operand that is a linear combination l and none for a
\* Scalar operand. When every Scalar operand equals x the visit succeeds,
\* having constrained every linear combination; when a Scalar operand
\* differs from x, gen_circuit fails with StaticConstraintMismatch at that
\* operand.
C24_ConstraintVisit ==
    [][(VisitStep /\ VisitingOp("Constraint") /\ InRange(ZOp(graph, CurrentNode).x)
          /\ UnorderedOperandsPresent) =>
         LET x == ZOp(graph, CurrentNode).x IN
         /\ \A k \in DOMAIN NewCalls : NewCalls[k].call = "constrain"
         /\ [k \in DOMAIN NewCalls |-> NewCalls[k].x] = ConstrainedUntilMismatch(UnorderedOperands, x)
         /\ IF ScalarMismatch(x)
            THEN GenFailsWith("StaticConstraintMismatch")
            ELSE VisitSucceeds /\ Len(NewCalls) = SymbolicOperandCount]_vars

\* gen_circuit has failed on a Constraint node with a Scalar operand that
\* differs from x, after constraining the linear combination before it.
C24_Witness ==
    /\ phase = "prove_returned"
    /\ prove_result = "StaticConstraintMismatch"
    /\ order # <<>>
    /\ ZOp(graph, order[Len(order)]).op = "Constraint"
    /\ ConstrainCalls = 1

-----------------------------------------------------------------------------
(* gen_circuit: the reference counts *)

\* The nodes gen_circuit has visited so far.
Processed == {order[k] : k \in DOMAIN order}

\* The outgoing edges of node i whose consumer has not been visited yet.
UnprocessedChildren(i) ==
    Len(SelectSeq(graph.edges, LAMBDA e : e.src = i /\ e.dst \notin Processed))

\* C25: between two visits of gen_circuit, unprocessed_child_count[i] is the
\* number of outgoing edges of node i whose consumer has not been visited
\* yet; it never wraps below zero, and the slot of a node that has consumers
\* is empty once they all have been visited.
C25_RefCountSound ==
    phase \in {"prove_gen", "verify_gen"} =>
        \A i \in zk_node_indices(graph) :
            /\ unprocessed_child_count[i] = UnprocessedChildren(i)
            /\ unprocessed_child_count[i] \in 0..Len(OutgoingEdges(graph, i))
            /\ (Len(OutgoingEdges(graph, i)) > 0 /\ unprocessed_child_count[i] = 0)
                  => nodes[i] = None
            /\ (i \in Processed /\ unprocessed_child_count[i] > 0
                  /\ ZOp(graph, i).op # "Constraint") => nodes[i] # None

\* A node with two consumers has been released by the second, and another
\* node still waits for a consumer.
C25_Witness ==
    /\ phase \in {"prove_gen", "verify_gen"}
    /\ \E i \in zk_node_indices(graph) :
          /\ Len(OutgoingEdges(graph, i)) = 2
          /\ unprocessed_child_count[i] = 0
          /\ nodes[i] = None
    /\ \E j \in Processed : unprocessed_child_count[j] = 1

-----------------------------------------------------------------------------
(* gen_circuit: failures *)

\* The operand edges of every node of g are as its operation wants them.
WellFormedEdges(g) ==
    \A n \in zk_node_indices(g) :
        CASE ZOp(g, n).op \in {"Add", "Sub", "Mul"} -> get_binary_operands(g, n).ok
          [] ZOp(g, n).op = "Neg" -> get_unary_operand(g, n).ok
          [] OTHER -> TRUE

\* The error the visit of the node about to be visited must end in, "" when
\* none: an out-of-range value, malformed operand edges, or a Scalar operand
\* of a Constraint that differs from its value.
ExpectedFailure ==
    LET node == ZOp(graph, CurrentNode) IN
    CASE node.op = "Constant" -> IF InRange(node.x) THEN "" ELSE "OutOfRange"
      [] node.op = "HiddenInput" ->
           IF node.x = NoValue \/ InRange(node.x) THEN "" ELSE "OutOfRange"
      [] node.op = "Constraint" ->
           IF ~InRange(node.x) THEN "OutOfRange"
           ELSE IF UnorderedOperandsPresent /\ ScalarMismatch(node.x)
           THEN "StaticConstraintMismatch"
           ELSE ""
      [] node.op \in {"Add", "Sub", "Mul"} ->
           IF get_binary_operands(graph, CurrentNode).ok THEN "" ELSE "MalformedEdges"
      [] node.op = "Neg" ->
           IF get_unary_operand(graph, CurrentNode).ok THEN "" ELSE "MalformedEdges"
      [] OTHER -> ""

GenFailures == {"OutOfRange", "MalformedEdges", "StaticConstraintMismatch"}

\* prove (verify) has returned one of the failures of a node visit.
ProveFailed == phase = "prove_returned" /\ prove_result \in GenFailures
VerifyFailed == phase = "verify_returned" /\ verify_result \in GenFailures

\* C26: a visit that must fail ends gen_circuit, and prove or verify with it,
\* in that error within the same step: for an out-of-range value or
\* malformed edges no call is made on the constraint system and no slot
\* changes; once prove or verify has returned such a failure no node can be
\* visited any more, and a failed prove leaves no proof.
C26_FailureStops ==
    /\ [][(VisitStep /\ ExpectedFailure # "") =>
             /\ GenFailsWith(ExpectedFailure)
             /\ proof' = proof
             /\ ExpectedFailure # "StaticConstraintMismatch" =>
                  (NewCalls = <<>> /\ cs' = cs /\ nodes' = nodes)]_vars
    /\ []((ProveFailed \/ VerifyFailed) => ~ENABLED GenVisit)
    /\ [](ProveFailed => proof = NoProof)

\* verify has failed on an out-of-range value in the middle of the traversal,
\* with nodes left unvisited, after prove had failed on it too.
C26_Witness ==
    /\ VerifyFailed
    /\ verify_result = "OutOfRange"
    /\ prove_result = "OutOfRange"
    /\ order # <<>>
    /\ Len(order) < zk_node_count(graph)

-----------------------------------------------------------------------------
(* constraint_count *)

\* C27: the count prove and verify take from constraint_count (and bind into
\* the transcript) is the ceiling of half the number of Input nodes, plus the
\* number of Constraint nodes, plus the number of Mul nodes neither of whose
\* operands is a Constant node; no other node adds to it.
C27_ConstraintCountFormula ==
    (phase \in {"prove_gen", "verify_gen"}) =>
        /\ constraint_count(graph).ok
        /\ gens.transcript = constraint_count(graph).count
        /\ constraint_count(graph).count =
             ((expected_input_count(graph) + 1) \div 2)
             + Cardinality(ConstraintNodes(graph))
             + Cardinality(CountedMuls(graph))

\* prove has counted a graph of three Input nodes, a Mul of two of them, an
\* Add and a Constraint: 2 + 1 + 1.
C27_Witness ==
    /\ phase = "prove_gen"
    /\ expected_input_count(graph) = 3
    /\ Cardinality(CountedMuls(graph)) = 1
    /\ \E n \in zk_node_indices(graph) : ZOp(graph, n).op = "Add"
    /\ gens.transcript = 4

-----------------------------------------------------------------------------
(* enum Node: the fold of Mul *)

\* C28: Node * Node on two linear combinations panics and returns no Node;
\* with a Scalar among the operands it returns the linear combination scaled
\* by the Scalar, or the Scalar product of two Scalars.
C28_NoFoldOfTwoLCs ==
    nf_pc = "mul" =>
        IF IsLC(nf_x) /\ IsLC(nf_y)
        THEN nf_out.panic = "Illegal operation." /\ ~IsLC(nf_out.node)
                /\ nf_out.node.kind # "Scalar"
        ELSE /\ nf_out.panic = ""
             /\ nf_out.node =
                  (IF IsLC(nf_x) THEN NodeLC(LcMulScalar(nf_x.lc, nf_y.s))
                   ELSE IF IsLC(nf_y) THEN NodeLC(LcMulScalar(nf_y.lc, nf_x.s))
                   ELSE NodeScalar((nf_x.s * nf_y.s) % FIELD_MODULUS))

\* Two different linear combinations were multiplied through the fold, which
\* panicked.
C28_Witness ==
    /\ nf_pc = "mul"
    /\ IsLC(nf_x) /\ IsLC(nf_y) /\ nf_x # nf_y
    /\ nf_out.panic = "Illegal operation."

-----------------------------------------------------------------------------
(* gen_circuit: what a visit leaves alone *)

\* The nodes the node about to be visited takes its operands from.
OperandNodes ==
    {graph.edges[k].src : k \in {j \in DOMAIN graph.edges : graph.edges[j].dst = CurrentNode}}

\* The visit makes no call on the constraint system.
NoCall == NewCalls = <<>> /\ cs' = cs

\* The visit makes one call on the constraint system, an allocate.
OneAllocate == Len(NewCalls) = 1 /\ NewCalls[1].call = "allocate"

\* Only the counters of the operands change, each by the number of edges
\* from it to the node visited.
OnlyOperandCounts ==
    \A i \in zk_node_indices(graph) :
        unprocessed_child_count'[i] =
            unprocessed_child_count[i]
            - Len(SelectSeq(graph.edges, LAMBDA e : e.src = i /\ e.dst = CurrentNode))

\* C29 as stated: a successful visit of an Add, Sub, Neg or Constant node
\* makes no call on the constraint system and changes no slot but its own
\* and no counter but those of its operands; a successful visit of an Input
\* or HiddenInput node makes one allocate call and no other.
C29_OnlyOwnSlot ==
    [][(VisitStep /\ VisitSucceeds) =>
         /\ ZOp(graph, CurrentNode).op \in {"Add", "Sub", "Neg", "Constant"} =>
              /\ NoCall
              /\ OnlyOperandCounts
              /\ nodes'[CurrentNode] # None
              /\ \A i \in zk_node_indices(graph) \ {CurrentNode} : nodes'[i] = nodes[i]
         /\ ZOp(graph, CurrentNode).op \in {"Input", "HiddenInput"} => OneAllocate]_vars

\* C29 as amended: a successful visit of an Add, Sub, Neg or Constant node
\* makes no call on the constraint system, fills its own slot, counts down
\* the counters of its operands and no other, and changes no other slot
\* except that it empties the slot of each operand whose counter has reached
\* zero; a successful visit of an Input or HiddenInput node makes one
\* allocate call and no other, fills its own slot and changes no other slot
\* and no counter.
C29_OwnSlotAndReleases ==
    [][(VisitStep /\ VisitSucceeds) =>
         /\ ZOp(graph, CurrentNode).op \in {"Add", "Sub", "Neg", "Constant"} =>
              /\ NoCall
              /\ OnlyOperandCounts
              /\ nodes'[CurrentNode] # None
              /\ \A i \in zk_node_indices(graph) \ {CurrentNode} :
                     nodes'[i] = IF i \in OperandNodes /\ unprocessed_child_count'[i] = 0
                                 THEN None ELSE nodes[i]
         /\ ZOp(graph, CurrentNode).op \in {"Input", "HiddenInput"} =>
              /\ OneAllocate
              /\ unprocessed_child_count' = unprocessed_child_count
              /\ nodes'[CurrentNode] # None
              /\ \A i \in zk_node_indices(graph) \ {CurrentNode} : nodes'[i] = nodes[i]]_vars

\* The node visited last is an Add that found both operands, stored its sum
\* and, being the last consumer of an operand, emptied that operand's slot.
C29_Witness ==
    /\ phase \in {"prove_gen", "verify_gen"}
    /\ order # <<>>
    /\ LET n == order[Len(order)] IN
         /\ ZOp(graph, n).op = "Add"
         /\ nodes[n] # None
         /\ \E k \in DOMAIN graph.edges :
               /\ graph.edges[k].dst = n
               /\ nodes[graph.edges[k].src] = None
               /\ ZOp(graph, graph.edges[k].src).op = "Input"

\* ---------------------------------------------------------------------------
\* Input creators of ProgramNode (SpecPN)
\* ---------------------------------------------------------------------------

\* A step of one of the input creators.
Creates == pn_call' # NoCreator

\* n nodes of one kind.
KindRun(kind, n) == [k \in 1..n |-> kind]

\* The ids a live handle refers to, read from the arena.
HandleIds(arena, h) == SubSeq(arena, h.off + 1, h.off + h.len)

\* The step bound handle h to a variable and left the other variables alone.
Binds(h) == \E s \in HandleSlots : pn_held' = [pn_held EXCEPT ![s] = h]

\* C30: public_input, private_input and constant_input append exactly
\* NUM_NATIVE_FIELD_ELEMENTS nodes of the requested kind to the graph, and
\* linked_input appends num_native_field_elements(plaintext_modulus) private
\* input nodes; the ids of the returned handle are the indices of those nodes
\* in creation order, and no node the graph already held is changed.
C30_CreatorsAppend ==
    [][Creates =>
         LET creator == pn_call'.creator
             n == pn_call'.n
             kind == IF creator = "public_input" THEN "public"
                     ELSE IF creator = "constant_input" THEN "constant"
                     ELSE "private"
         IN /\ creator \in InputCreators \cup {"linked_input"}
            /\ pn_graph' = pn_graph \o KindRun(kind, n)
            /\ \E h \in {pn_held'[s] : s \in HandleSlots} :
                 /\ Binds(h)
                 /\ h.len = n
                 /\ h.epoch = pn_epoch'
                 /\ HandleIds(pn_arena', h) = [k \in 1..n |-> Len(pn_graph) + k - 1]]_vars

\* A linked input of one element was created in a graph that already held a
\* constant input, and a variable holds the handle of the new node.
C30_Witness ==
    /\ pn_active
    /\ pn_call = [creator |-> "linked_input", n |-> 1]
    /\ pn_graph = <<"constant", "private">>
    /\ \E s \in HandleSlots :
         /\ Live(pn_held[s])
         /\ HandleIds(pn_arena, pn_held[s]) = <<1>>

\* ---------------------------------------------------------------------------
\* Generator capacity against the gates of the constraint system (SpecZK)
\* ---------------------------------------------------------------------------

\* The calls of one kind the constraint system received so far.
CallsOf(call) == Len(SelectSeq(cs_log, LAMBDA e : e.call = call))

\* Multiplication gates held by the constraint system: one per multiply call,
\* one per pair of allocate calls (a single allocate takes a gate of its own).
GatesHeld == CallsOf("multiply") + (CallsOf("allocate") + 1) \div 2

\* gen_circuit went through the whole graph and returned Ok.
GenCircuitDone == phase \in {"prove_gen", "verify_gen"} /\ ready = {}

\* C31: once gen_circuit has finished on a graph, the generator capacity
\* chosen by prove and verify, next_power_of_two(2 * constraint_count(graph)),
\* is at least the number of multiplication gates the constraint system
\* holds: the multiply calls plus the ceiling of half the allocate calls,
\* those made for HiddenInput nodes included.
C31_CapacityCoversGates ==
    GenCircuitDone => gens.capacity >= GatesHeld

\* ---------------------------------------------------------------------------
\* The fold of two operands never sees two linear combinations (SpecZK)
\* ---------------------------------------------------------------------------

\* What the visit of CurrentNode gives in the state at hand.
CurrentVisit ==
    VisitNode([nodes |-> nodes, ucc |-> unprocessed_child_count, cs |-> cs, log |-> cs_log],
              graph, CurrentNode,
              IF phase = "prove_gen" THEN "prover" ELSE "verifier", prove_inputs)

\* The step called multiply on the constraint system.
CallsMultiply == \E k \in DOMAIN NewCalls : NewCalls[k].call = "multiply"

\* C32: no visit of gen_circuit ends in the 'Illegal operation' failure of
\* the operand fold. The visit of a Mul node whose two operands are both
\* linear combinations goes through multiply on the constraint system; the
\* fold is applied, without a call of multiply, only when at least one
\* operand is a Scalar.
C32_FoldNeverIllegal ==
    [][VisitStep =>
         /\ CurrentVisit.err # "panic: Illegal operation."
         /\ (VisitingOp("Mul") /\ BinaryOperandsPresent) =>
               /\ VisitSucceeds
               /\ CallsMultiply <=> (IsLC(LeftOperand) /\ IsLC(RightOperand))]_vars

\* The verifier's gen_circuit went through a graph with a Mul node fed by
\* inputs on both sides: the node was visited, multiply was called once and
\* no failure was met.
C32_Witness ==
    /\ phase = "verify_gen"
    /\ ready = {}
    /\ verify_result = "none"
    /\ CallsOf("multiply") = 1
    /\ \E n \in zk_node_indices(graph) :
          LET q == get_binary_operands(graph, n) IN
          /\ ZOp(graph, n).op = "Mul"
          /\ q.ok
          /\ Symbolic(graph, q.left) /\ Symbolic(graph, q.right)
          /\ \E k \in DOMAIN order : order[k] = n

\* ---------------------------------------------------------------------------
\* Operand slots at the time they are read (SpecZK)
\* ---------------------------------------------------------------------------

\* The operand edges of g are well formed: a binary node has one Left and one
\* Right predecessor, a unary node one predecessor, and the predecessors of a
\* Constraint node come by Unordered edges from nodes that produce a value.
WellFormedDag(g) ==
    /\ WellFormedEdges(g)
    /\ \A k \in DOMAIN g.edges :
          LET e == g.edges[k] IN
          /\ e.src < e.dst
          /\ ZOp(g, e.dst).op = "Constraint" => (e.role = "Unordered" /\ e.src \in Producers(g))

\* C33: on a well-formed DAG no visit of gen_circuit reads an operand slot
\* that is still empty or was already released: the 'dependency not found'
\* panic is not reached, also when one node feeds both operands of a
\* consumer or feeds several consumers.
C33_NoMissingDependency ==
    [][(VisitStep /\ WellFormedDag(graph)) =>
         CurrentVisit.err # "panic: dependency not found"]_vars

\* ---------------------------------------------------------------------------
\* Scalar or linear combination: decided by the graph alone (SpecZK)
\* ---------------------------------------------------------------------------

\* The operand node n holds, when its slot is filled.
StoredOperand(n) == Unwrap(nodes[n])

\* C34: the operand gen_circuit stores for a node is a Scalar exactly when
\* neither the node nor any of its ancestors is an Input or HiddenInput
\* node, and a linear combination otherwise. The graph alone decides which:
\* it is the same for the prover under every input vector and for the
\* verifier.
C34_KindFollowsGraph ==
    [][VisitStep =>
         \A n \in zk_node_indices(graph) :
            (nodes[n] = None /\ nodes'[n] # None) =>
               /\ n = CurrentNode
               /\ Unwrap(nodes'[n]).kind \in {"Scalar", "LinearCombination"}
               /\ IsLC(Unwrap(nodes'[n])) <=> Symbolic(graph, n)]_vars

\* The verifier went through a graph and holds both kinds of operand for
\* Mul nodes: a linear combination for one below an input, a Scalar for one
\* over constants only.
C34_Witness ==
    /\ phase = "verify_gen"
    /\ ready = {}
    /\ \E n, m \in zk_node_indices(graph) :
          /\ ZOp(graph, n).op = "Mul" /\ ZOp(graph, m).op = "Mul"
          /\ nodes[n] # None /\ nodes[m] # None
          /\ IsLC(StoredOperand(n)) /\ Symbolic(graph, n)
          /\ ~IsLC(StoredOperand(m)) /\ ~Symbolic(graph, m)

====
